---- MODULE Spec2Model ----
(***************************************************************************)
(* A model of adm0_reverse: the rectangle geometry (quadtree.py), the      *)
(* prove-or-split builder (builder.py), the tree lookup (quadtree.py) and  *)
(* the binary serialization of the tree (serialize.py).                    *)
(*                                                                         *)
(* Values.  A Python exception is the record [kind |-> "ValueError", ...]; *)
(* Python's None is the record None.  A Rectangle is the record            *)
(* [x0, x1, y0, y1]; a point is the pair <<x, y>>; the oracle takes the    *)
(* pair <<ilat, ilon>> = <<y, x>>.                                         *)
(***************************************************************************)
EXTENDS Integers, Sequences, FiniteSets, TLC

VARIABLES
    pc,          \* position of the running program
    rect,        \* quadtree.py  a Rectangle under test
    op,          \* the last Rectangle method called, with its arguments
    out,         \* the value that call returned
    oracle,      \* oracle.py    the oracle: <<ilat, ilon>> -> country id
    config,      \* builder.py   the arguments of build_quadtree / BuilderConfig
    stats,       \* builder.py   QuadTreeBuilder.stats
    stack,       \* builder.py   the _split_node activations, innermost last
    tree,        \* the QuadTree at hand (built, or given to the serializer)
    oracle_log,  \* every call made on the oracle, in order
    first,       \* the outcome of the previous build of the same inputs
    tasks,       \* sibling builds not yet run (parallel build)
    nodes,       \* nodes built so far, by path (parallel build)
    reordered,   \* a call ran before one the sequential build runs first
    flags,       \* serialize.py the compress / compressed arguments
    data,        \* serialize.py the serialized bytes
    restored,    \* serialize.py what deserialize returned
    query,       \* the <<ilat, ilon>> of the last QuadTree.lookup
    result,      \* what that lookup returned
    country_codes, \* serialize.py the mapping given to serialize_country_table
    code_length, \* serialize.py its code_length argument
    table,       \* serialize.py what serialize_country_table returned
    countries,   \* duckdb_oracle.py the rows of the table `countries`
    cache,       \* duckdb_oracle.py DuckDBOracle._cache, in insertion order
    cache_size,  \* duckdb_oracle.py DuckDBOracle._cache_size
    answer,      \* the last oracle call and what it returned
    coords,      \* quantize.py the lat, lon and precision given
    cell,        \* quantize.py the <<ilat, ilon>> quantize returned
    back         \* quantize.py the <<lat, lon>> dequantize returned

vars == <<pc, rect, op, out, oracle, config, stats, stack, tree, oracle_log,
          first, tasks, nodes, reordered, flags, data, restored, query, result,
          country_codes, code_length, table, countries, cache, cache_size, answer,
          coords, cell, back>>

rectVars == <<rect, op, out>>
buildVars == <<oracle, config, stats, stack, oracle_log, first>>
parVars == <<tasks, nodes, reordered>>
serVars == <<flags, data, restored>>
lookupVars == <<query, result>>
tableVars == <<country_codes, code_length, table>>
dbVars == <<countries, cache, cache_size, answer>>
quantVars == <<coords, cell, back>>

None == [kind |-> "none"]

ValueError(msg) == [kind |-> "ValueError", msg |-> msg]

Min(a, b) == IF a <= b THEN a ELSE b

Max(a, b) == IF a >= b THEN a ELSE b

(***************************************************************************)
(* Bounds of the model.                                                    *)
(***************************************************************************)
\* Rectangles under test have their coordinates in 0..MaxCoord.
MaxCoord == 4

\* The grid of the code spans 360 by 180 degrees; the grid of the model spans
\* LonDegrees by LatDegrees, so that its lattice can be enumerated.
LonDegrees == 6

LatDegrees == 2

\* The largest sample_k a build is given.
MaxSampleK == 8

\* The largest batch_size a build is given.
MaxBatchSize == 3

\* The bounds of a tree given to the serializer or to a lookup have their
\* corner in 0..MaxBound.
MaxBound == 2

\* The builds run with concurrent _build_node calls are those of the trees
\* of at most MaxParNodes nodes.
MaxParNodes == 13

\* A varint given to the decoder is padded with at most MaxPad groups.
MaxPad == 2

\* A float has MantBits significant bits and FracBits bits after the point;
\* precisions go from 0 to MaxPrecision.
MantBits == 10
FracBits == 9
MaxPrecision == 1

\* sample_points is asked for at most MaxCount points.
MaxCount == 11

\* A list of points given to lookup_batch has at most MaxPoints points.
MaxPoints == 2

\* A mapping given to serialize_country_table has at most MaxEntries items.
MaxEntries == 3

(***************************************************************************)
(* quadtree.py: Rectangle                                                  *)
(***************************************************************************)
Rectangle(x0, x1, y0, y1) == [x0 |-> x0, x1 |-> x1, y0 |-> y0, y1 |-> y1]

Width(r) == r.x1 - r.x0 + 1

Height(r) == r.y1 - r.y0 + 1

PointCount(r) == Width(r) * Height(r)

IsSinglePoint(r) == r.x0 = r.x1 /\ r.y0 = r.y1

Contains(r, x, y) == r.x0 <= x /\ x <= r.x1 /\ r.y0 <= y /\ y <= r.y1

\* Python's // is floor division, as \div is.
Midpoints(r) == [xm |-> (r.x0 + r.x1) \div 2, ym |-> (r.y0 + r.y1) \div 2]

\* A subdivision that keeps the south-west quadrant only.
SubdivideSouthWestOnly(r) ==
    << None, None, Rectangle(r.x0, Midpoints(r).xm, r.y0, Midpoints(r).ym), None >>

\* A subdivision whose NE child is dropped with the height only.
SubdivideNorthEastByHeight(r) ==
    LET xm == Midpoints(r).xm
        ym == Midpoints(r).ym
    IN  << IF ym + 1 <= r.y1 THEN Rectangle(r.x0, xm, ym + 1, r.y1) ELSE None,
           IF ym + 1 <= r.y1 THEN Rectangle(xm + 1, r.x1, ym + 1, r.y1) ELSE None,
           Rectangle(r.x0, xm, r.y0, ym),
           IF xm + 1 <= r.x1 THEN Rectangle(xm + 1, r.x1, r.y0, ym) ELSE None >>

\* A subdivision whose SW child runs up to the northern edge.
SubdivideSouthWestFullHeight(r) ==
    LET xm == Midpoints(r).xm
        ym == Midpoints(r).ym
    IN  << IF ym + 1 <= r.y1 THEN Rectangle(r.x0, xm, ym + 1, r.y1) ELSE None,
           IF xm + 1 <= r.x1 /\ ym + 1 <= r.y1
              THEN Rectangle(xm + 1, r.x1, ym + 1, r.y1) ELSE None,
           Rectangle(r.x0, xm, r.y0, r.y1),
           IF xm + 1 <= r.x1 THEN Rectangle(xm + 1, r.x1, r.y0, ym) ELSE None >>

\* A subdivision whose NW child shares the row ym with the SW child.
SubdivideOverlapping(r) ==
    LET xm == Midpoints(r).xm
        ym == Midpoints(r).ym
    IN  << IF ym + 1 <= r.y1 THEN Rectangle(r.x0, xm, ym, r.y1) ELSE None,
           IF xm + 1 <= r.x1 /\ ym + 1 <= r.y1
              THEN Rectangle(xm + 1, r.x1, ym + 1, r.y1) ELSE None,
           Rectangle(r.x0, xm, r.y0, ym),
           IF xm + 1 <= r.x1 THEN Rectangle(xm + 1, r.x1, r.y0, ym) ELSE None >>

\* The list of 4 children NW, NE, SW, SE of a rectangle that is not a single
\* point (subdivide, after its single-point test).
ChildRects(r) ==
    LET xm == Midpoints(r).xm
        ym == Midpoints(r).ym
    IN  << IF ym + 1 <= r.y1 THEN Rectangle(r.x0, xm, ym + 1, r.y1) ELSE None,
           IF xm + 1 <= r.x1 /\ ym + 1 <= r.y1
              THEN Rectangle(xm + 1, r.x1, ym + 1, r.y1) ELSE None,
           Rectangle(r.x0, xm, r.y0, ym),
           IF xm + 1 <= r.x1 THEN Rectangle(xm + 1, r.x1, r.y0, ym) ELSE None >>

Subdivide(r) ==
    IF IsSinglePoint(r)
    THEN ValueError("Cannot subdivide a single-point rectangle")
    ELSE [kind |-> "ok", value |-> ChildRects(r)]

\* The quadrant of a contained point: 0=NW, 1=NE, 2=SW, 3=SE.
QuadrantRowTieUp(r, x, y) ==
    LET xm == Midpoints(r).xm
        ym == Midpoints(r).ym
    IN  IF y >= ym THEN (IF x <= xm THEN 0 ELSE 1)
                   ELSE (IF x <= xm THEN 2 ELSE 3)

Quadrant(r, x, y) ==
    LET xm == Midpoints(r).xm
        ym == Midpoints(r).ym
    IN  IF y > ym THEN (IF x <= xm THEN 0 ELSE 1)
                  ELSE (IF x <= xm THEN 2 ELSE 3)

ChildIndexForPoint(r, x, y) ==
    IF ~Contains(r, x, y)
    THEN ValueError("Point not in rectangle")
    ELSE [kind |-> "ok", value |-> Quadrant(r, x, y)]

\* Every lattice point, column by column (x outer, y inner).
IterPointsColumnMajor(r) ==
    [i \in 1..PointCount(r) |->
        << r.x0 + ((i - 1) \div Height(r)), r.y0 + ((i - 1) % Height(r)) >>]

\* iter_points: every lattice point, row-major (y outer, x inner).
IterPoints(r) ==
    [i \in 1..PointCount(r) |->
        << r.x0 + ((i - 1) % Width(r)), r.y0 + ((i - 1) \div Width(r)) >>]

\* The lattice points of a rectangle, as a set.
Points(r) == {<<x, y>> : x \in r.x0..r.x1, y \in r.y0..r.y1}

(***************************************************************************)
(* quadtree.py: Rectangle.sample_points.  random.Random (a Mersenne        *)
(* Twister) is modelled by a linear congruential generator: what the       *)
(* sampler uses of it is that the stream is a function of the seed alone.  *)
(***************************************************************************)
RngSeed(seed) == seed % 65537

RngNext(s) == (s * 75 + 74) % 65537

\* rng.randint(a, b) from the generator state s (already advanced).
RandInt(s, a, b) == a + (s % (b - a + 1))

\* The `remaining` points of the random fill: x is drawn before y.
RECURSIVE RandomPoints(_, _, _)
RandomPoints(r, s, remaining) ==
    IF remaining <= 0 THEN <<>>
    ELSE LET s1 == RngNext(s)
             s2 == RngNext(s1)
         IN  << <<RandInt(s1, r.x0, r.x1), RandInt(s2, r.y0, r.y1)>> >>
             \o RandomPoints(r, s2, remaining - 1)

\* The list as it is, duplicates kept.
KeepDuplicates(points, seen) == points

\* Remove duplicates while preserving order.
RECURSIVE UniquePoints(_, _)
UniquePoints(points, seen) ==
    IF points = <<>> THEN <<>>
    ELSE IF Head(points) \in seen THEN UniquePoints(Tail(points), seen)
    ELSE <<Head(points)>> \o UniquePoints(Tail(points), seen \cup {Head(points)})

\* Python's seq[:n].
SliceTo(seq, n) ==
    IF n >= 0 THEN SubSeq(seq, 1, Min(n, Len(seq)))
    ELSE SubSeq(seq, 1, Max(0, Len(seq) + n))

\* The corners, the center and the stratified thirds, in the code's order.
FixedPoints(r) ==
    LET xm == Midpoints(r).xm
        ym == Midpoints(r).ym
    IN  << <<r.x0, r.y0>>, <<r.x1, r.y0>>, <<r.x0, r.y1>>, <<r.x1, r.y1>>,
           <<xm, ym>> >>
        \o (IF Width(r) > 2
            THEN << <<r.x0 + (Width(r) \div 3), ym>>,
                    <<r.x0 + ((2 * Width(r)) \div 3), ym>> >>
            ELSE <<>>)
        \o (IF Height(r) > 2
            THEN << <<xm, r.y0 + (Height(r) \div 3)>>,
                    <<xm, r.y0 + ((2 * Height(r)) \div 3)>> >>
            ELSE <<>>)

SamplePoints(r, count, seed) ==
    LET fixed == FixedPoints(r)
        remaining == count - Len(fixed)
        points == IF remaining > 0 /\ PointCount(r) > Len(fixed)
                  THEN fixed \o RandomPoints(r, RngSeed(seed), remaining)
                  ELSE fixed
    IN  SliceTo(UniquePoints(points, {}), count)

\* The condition under which sample_points draws random points for a
\* builder of configuration c.
RandomlySampled(c, r) ==
    /\ c.sample_k - Len(FixedPoints(r)) > 0
    /\ PointCount(r) > Len(FixedPoints(r))

(***************************************************************************)
(* quadtree.py: LeafNode, InternalNode, QuadTree                           *)
(***************************************************************************)
LeafNode(country_id) == [kind |-> "leaf", country_id |-> country_id]

\* InternalNode.__post_init__ rejects a list that is not of length 4.
InternalNode(children) ==
    IF Len(children) # 4
    THEN ValueError("InternalNode must have exactly 4 children slots")
    ELSE [kind |-> "internal", children |-> children]

QuadTree(root, bounds, precision) ==
    [root |-> root, bounds |-> bounds, precision |-> precision]

\* node.lookup(x, y, rect).  `visited` counts the nodes the descent entered.
RECURSIVE NodeLookup(_, _, _, _, _)
NodeLookup(node, x, y, r, visited) ==
    IF node.kind = "leaf"
    THEN [kind |-> "ok", country_id |-> node.country_id, visited |-> visited + 1]
    ELSE LET idx == ChildIndexForPoint(r, x, y)
         IN  IF idx.kind # "ok" THEN idx @@ [visited |-> visited + 1]
             ELSE LET child == node.children[idx.value + 1]
                      child_rects == Subdivide(r)
                  IN  IF child = None
                      THEN ValueError("No child at index") @@ [visited |-> visited + 1]
                      ELSE IF child_rects.kind # "ok"
                      THEN child_rects @@ [visited |-> visited + 1]
                      ELSE IF child_rects.value[idx.value + 1] = None
                      THEN ValueError("Child rectangle is None") @@ [visited |-> visited + 1]
                      ELSE NodeLookup(child, x, y, child_rects.value[idx.value + 1],
                                      visited + 1)

\* A bounds test that passes the latitude index for x.
InBoundsSwapped(t, ilat, ilon) == Contains(t.bounds, ilat, ilon)

\* The bounds test of QuadTree.lookup.
InBounds(t, ilat, ilon) == Contains(t.bounds, ilon, ilat)

TreeLookup(t, ilat, ilon) ==
    IF ~InBounds(t, ilat, ilon)
    THEN ValueError("Point outside tree bounds") @@ [visited |-> 0]
    ELSE NodeLookup(t.root, ilon, ilat, t.bounds, 0)

(***************************************************************************)
(* The variables a specification does not use stay at these values.        *)
(***************************************************************************)
RectIdle == rect = None /\ op = None /\ out = None

BuildIdle ==
    /\ oracle = None /\ config = None /\ stats = None
    /\ stack = <<>> /\ oracle_log = <<>> /\ first = None

ParIdle == tasks = {} /\ nodes = {} /\ reordered = FALSE

SerIdle == flags = None /\ data = <<>> /\ restored = None

LookupIdle == query = None /\ result = None

TableIdle == country_codes = <<>> /\ code_length = 0 /\ table = None

DbIdle == countries = <<>> /\ cache = <<>> /\ cache_size = 0 /\ answer = None

QuantIdle == coords = None /\ cell = None /\ back = None

(***************************************************************************)
(* SpecRect: the methods of one Rectangle, called in any order.            *)
(***************************************************************************)
\* The seeds given to sample_points.
SeedInputs == {0, 1, 12345}

\* Every rectangle Rectangle.__post_init__ accepts, within the bound.
RectInputs ==
    {r \in [x0 : 0..MaxCoord, x1 : 0..MaxCoord, y0 : 0..MaxCoord, y1 : 0..MaxCoord] :
        r.x0 <= r.x1 /\ r.y0 <= r.y1}

InitRect ==
    /\ pc = "rect"
    /\ rect \in RectInputs
    /\ op = [name |-> "new", args |-> <<>>]
    /\ out = None
    /\ tree = None
    /\ BuildIdle /\ ParIdle /\ SerIdle /\ LookupIdle /\ TableIdle /\ DbIdle /\ QuantIdle

RectSubdivide ==
    /\ pc = "rect"
    /\ op' = [name |-> "subdivide", args |-> <<>>]
    /\ out' = Subdivide(rect)
    /\ UNCHANGED <<pc, rect, tree, buildVars, parVars, serVars, lookupVars, tableVars,
                   dbVars, quantVars>>

RectChildIndexForPoint ==
    /\ pc = "rect"
    /\ \E x \in 0..MaxCoord, y \in 0..MaxCoord :
        /\ op' = [name |-> "child_index_for_point", args |-> <<x, y>>]
        /\ out' = ChildIndexForPoint(rect, x, y)
    /\ UNCHANGED <<pc, rect, tree, buildVars, parVars, serVars, lookupVars, tableVars,
                   dbVars, quantVars>>

RectSamplePoints ==
    /\ pc = "rect"
    /\ \E count \in 1..MaxCount, seed \in SeedInputs :
        /\ op' = [name |-> "sample_points", args |-> <<count, seed>>]
        /\ out' = SamplePoints(rect, count, seed)
    /\ UNCHANGED <<pc, rect, tree, buildVars, parVars, serVars, lookupVars, tableVars,
                   dbVars, quantVars>>

NextRect == RectSubdivide \/ RectChildIndexForPoint \/ RectSamplePoints

SpecRect == InitRect /\ [][NextRect]_vars

\* The indices (1..4) of the children a subdivide result holds.
Present(children) == {i \in 1..4 : children[i] # None}

\* C5: the present children of a rectangle that is not a single point are
\* pairwise disjoint, their union is the rectangle's lattice points, and
\* the midpoint column and row lie in the left and the lower children.
SubdivisionCoverage ==
    (op.name = "subdivide" /\ ~IsSinglePoint(rect)) =>
        /\ out.kind = "ok"
        /\ \A i \in Present(out.value), j \in Present(out.value) :
              i # j => Points(out.value[i]) \cap Points(out.value[j]) = {}
        /\ UNION {Points(out.value[i]) : i \in Present(out.value)} = Points(rect)
        /\ \A p \in Points(rect) :
              /\ p[1] = Midpoints(rect).xm =>
                    \E i \in Present(out.value) \cap {1, 3} : p \in Points(out.value[i])
              /\ p[2] = Midpoints(rect).ym =>
                    \E i \in Present(out.value) \cap {3, 4} : p \in Points(out.value[i])

\* A rectangle of odd width and even height was subdivided into 4 children.
SubdivisionCoverageWitness ==
    /\ op.name = "subdivide"
    /\ Width(rect) = 3 /\ Height(rect) = 2
    /\ out.kind = "ok"
    /\ Present(out.value) = 1..4

\* C6: child_index_for_point of a contained point names a present child of
\* subdivide that contains the point; the midpoint column goes left, the
\* midpoint row goes down.
ChildIndexConsistency ==
    (/\ op.name = "child_index_for_point"
     /\ ~IsSinglePoint(rect)
     /\ Contains(rect, op.args[1], op.args[2])) =>
        /\ out.kind = "ok"
        /\ out.value \in 0..3
        /\ Subdivide(rect).value[out.value + 1] # None
        /\ Contains(Subdivide(rect).value[out.value + 1], op.args[1], op.args[2])
        /\ op.args[1] = Midpoints(rect).xm => out.value \in {0, 2}
        /\ op.args[2] = Midpoints(rect).ym => out.value \in {2, 3}

\* A point on the midpoint row of a rectangle of several rows was routed.
ChildIndexConsistencyWitness ==
    /\ op.name = "child_index_for_point"
    /\ Height(rect) > 2 /\ Width(rect) > 1
    /\ Contains(rect, op.args[1], op.args[2])
    /\ op.args[2] = Midpoints(rect).ym
    /\ op.args[1] > Midpoints(rect).xm
    /\ out.kind = "ok" /\ out.value = 3

\* C17: subdivide of a rectangle that is not a single point returns 4 slots
\* in the order NW, NE, SW, SE; SW is never None, NW is None iff the height
\* is 1, SE is None iff the width is 1, NE is None iff the width or the
\* height is 1; subdivide of a single point raises ValueError.
NullChildPolicy ==
    op.name = "subdivide" =>
        IF IsSinglePoint(rect) THEN out.kind = "ValueError"
        ELSE /\ out.kind = "ok"
             /\ Len(out.value) = 4
             /\ out.value[3] # None
             /\ out.value[1] = None <=> Height(rect) = 1
             /\ out.value[4] = None <=> Width(rect) = 1
             /\ out.value[2] = None <=> (Width(rect) = 1 \/ Height(rect) = 1)
             /\ out.value[3].x0 = rect.x0 /\ out.value[3].y0 = rect.y0
             /\ out.value[1] # None =>
                   out.value[1].x0 = rect.x0 /\ out.value[1].y1 = rect.y1
             /\ out.value[2] # None =>
                   out.value[2].x1 = rect.x1 /\ out.value[2].y1 = rect.y1
             /\ out.value[4] # None =>
                   out.value[4].x1 = rect.x1 /\ out.value[4].y0 = rect.y0

\* A rectangle of width 1 and several rows was subdivided into NW and SW.
NullChildPolicyWitness ==
    /\ op.name = "subdivide"
    /\ Width(rect) = 1 /\ Height(rect) = 3
    /\ out.kind = "ok"
    /\ Present(out.value) = {1, 3}

\* The items of a list at their first occurrence, in order.
RECURSIVE FirstOccurrences(_, _)
FirstOccurrences(seq, i) ==
    IF i > Len(seq) THEN <<>>
    ELSE (IF \E j \in 1..(i - 1) : seq[j] = seq[i] THEN <<>> ELSE <<seq[i]>>)
         \o FirstOccurrences(seq, i + 1)

\* The corners SW, SE, NW, NE and the center of a rectangle.
CornersAndCenter(r) ==
    << <<r.x0, r.y0>>, <<r.x1, r.y0>>, <<r.x0, r.y1>>, <<r.x1, r.y1>>,
       <<Midpoints(r).xm, Midpoints(r).ym>> >>

\* What sample_points(k, seed) is to return on the rectangle at hand.
SampleShape(k, points) ==
    /\ Len(points) <= k
    /\ \A i \in 1..Len(points), j \in 1..Len(points) : i # j => points[i] # points[j]
    /\ \A i \in 1..Len(points) : Contains(rect, points[i][1], points[i][2])
    /\ \E lead \in {FirstOccurrences(CornersAndCenter(rect), 1)} :
          \E n \in {Min(k, Len(lead))} :
              Len(points) >= n /\ SubSeq(points, 1, n) = SubSeq(lead, 1, n)

\* C21: sample_points(k, seed) with k >= 1 returns at most k points, without
\* duplicates, all inside the rectangle, beginning with the corners SW, SE,
\* NW, NE and the center (deduplicated in order, truncated to k); a second
\* call with the same k and seed returns the same list.
SamplePointsDeterministic ==
    /\ [](op.name = "sample_points" => SampleShape(op.args[1], out))
    /\ [][(op.name = "sample_points" /\ op'.name = "sample_points" /\ op'.args = op.args)
            => out' = out]_vars

\* A rectangle of 4 columns and 3 rows was asked for more points than its
\* fixed ones, drew random points, and returned fewer than asked for.
SamplePointsWitness ==
    /\ op.name = "sample_points"
    /\ Width(rect) = 4 /\ Height(rect) = 3
    /\ op.args[1] > Len(FixedPoints(rect))
    /\ Len(out) > 5 /\ Len(out) < op.args[1]

(***************************************************************************)
(* quantize.py: the grid of a precision                                    *)
(***************************************************************************)
GetGridDimensions(precision) ==
    [max_ilon |-> LonDegrees * (10 ^ precision),
     max_ilat |-> LatDegrees * (10 ^ precision)]

\* QuadTreeBuilder.__init__: the bounds of the full grid.
FullBounds(precision) ==
    Rectangle(0, GetGridDimensions(precision).max_ilon,
              0, GetGridDimensions(precision).max_ilat)

(***************************************************************************)
(* oracle.py: the oracles a build is given.  An oracle is a function of    *)
(* <<ilat, ilon>>; lookup_batch is the default, elementwise lookup.        *)
(***************************************************************************)
OCEAN_ID == 0

OracleDomain == (0..GetGridDimensions(0).max_ilat) \X (0..GetGridDimensions(0).max_ilon)

\* FunctionOracle of a constant function.
UniformOracle(c) == [p \in OracleDomain |-> c]

\* MockRectangleOracle with one rectangular country of id 1.
RectangleOracle(r) ==
    [p \in OracleDomain |-> IF Contains(r, p[2], p[1]) THEN 1 ELSE OCEAN_ID]

\* MockGridOracle with cells of one lattice point.
GridOracle == [p \in OracleDomain |-> IF (p[2] + p[1]) % 2 = 0 THEN 1 ELSE 2]

\* The countries of the rectangle oracles: the rectangles with a corner at
\* the origin of the grid, and the single lattice points.
CountryInputs ==
    {Rectangle(0, x1, 0, y1) : x1 \in 0..LonDegrees, y1 \in 0..LatDegrees}
    \cup {Rectangle(x, x, y, y) : x \in 0..LonDegrees, y \in 0..LatDegrees}

OracleInputs ==
    {UniformOracle(OCEAN_ID), UniformOracle(7), GridOracle}
    \cup {RectangleOracle(r) : r \in CountryInputs}

OracleLookup(ilat, ilon) == oracle[<<ilat, ilon>>]

LookupBatch(points) == [i \in 1..Len(points) |-> OracleLookup(points[i][1], points[i][2])]

(***************************************************************************)
(* builder.py: BuilderConfig, BuilderStats                                 *)
(***************************************************************************)
DefaultMaxDepth == 64

\* BuilderConfig.__post_init__: the error it raises, or None.
PostInitNoDepthCheck(c) ==
    IF c.precision < 0 THEN ValueError("precision must be non-negative")
    ELSE IF c.sample_k < 1 THEN ValueError("sample_k must be at least 1")
    ELSE IF c.brute_force_threshold < 1
    THEN ValueError("brute_force_threshold must be at least 1")
    ELSE IF c.batch_size < 1 THEN ValueError("batch_size must be at least 1")
    ELSE None

PostInit(c) ==
    IF c.precision < 0 THEN ValueError("precision must be non-negative")
    ELSE IF c.sample_k < 1 THEN ValueError("sample_k must be at least 1")
    ELSE IF c.brute_force_threshold < 1
    THEN ValueError("brute_force_threshold must be at least 1")
    ELSE IF c.max_depth < 1 THEN ValueError("max_depth must be at least 1")
    ELSE IF c.batch_size < 1 THEN ValueError("batch_size must be at least 1")
    ELSE None

\* The arguments build_quadtree is called with, valid or not.
ConfigInputs ==
    [precision : {-1, 0},
     sample_k : {0, 1, MaxSampleK},
     brute_force_threshold : {0, 2, PointCount(FullBounds(0))},
     max_depth : {0, 1, DefaultMaxDepth},
     seed : {0, 1},
     batch_size : {0, 1, MaxBatchSize}]

BuilderStats ==
    [nodes_created |-> 0, leaves_created |-> 0, internal_nodes_created |-> 0,
     oracle_calls |-> 0, brute_force_verifications |-> 0, max_depth_reached |-> 0,
     sampling_detected_mixed |-> 0, brute_force_detected_mixed |-> 0]

(***************************************************************************)
(* builder.py: QuadTreeBuilder.  hashlib.md5 is modelled by a polynomial   *)
(* of the five integers it digests, reduced to the generator's range.      *)
(***************************************************************************)
\* A seed drawn from a generator shared by the rectangles of one build: it
\* depends on the number of points queried before.
GetSampleSeedOfBuild(c, r) ==
    (c.seed * 31 + r.x0 * 17 + r.x1 * 13 + r.y0 * 7 + r.y1 * 3
        + 5 * stats.oracle_calls) % 65537

\* A seed drawn from a generator shared by all builds: it depends on the
\* number of oracle calls made so far.
GetSampleSeedOfSequence(c, r) ==
    (c.seed * 31 + r.x0 * 17 + r.x1 * 13 + r.y0 * 7 + r.y1 * 3
        + 5 * Len(oracle_log)) % 65537

GetSampleSeed(c, r) ==
    (c.seed * 31 + r.x0 * 17 + r.x1 * 13 + r.y0 * 7 + r.y1 * 3) % 65537

\* _sample_rectangle: the batch submitted to the oracle and the set of ids.
SampleRectangle(c, r) ==
    LET points == SamplePoints(r, c.sample_k, GetSampleSeed(c, r))
        oracle_points == [i \in 1..Len(points) |-> <<points[i][2], points[i][1]>>]
        country_ids == LookupBatch(oracle_points)
    IN  [batch |-> oracle_points,
         ids |-> {country_ids[i] : i \in 1..Len(country_ids)}]

\* any(r != expected for r in results)
AnyMismatch(results, expected) == \E i \in 1..Len(results) : results[i] # expected

\* The loop of _brute_force_verify from the i-th point on: `batch` is the
\* batch being collected, `batches` the batches submitted so far.
RECURSIVE BruteForceLoop(_, _, _, _, _, _)
BruteForceLoop(c, pts, i, batch, batches, expected) ==
    IF i > Len(pts)
    THEN IF batch # <<>>
         THEN [ok |-> ~AnyMismatch(LookupBatch(batch), expected),
               batches |-> Append(batches, batch)]
         ELSE [ok |-> TRUE, batches |-> batches]
    ELSE LET b == Append(batch, <<pts[i][2], pts[i][1]>>)
         IN  IF Len(b) >= c.batch_size
             THEN IF AnyMismatch(LookupBatch(b), expected)
                  THEN [ok |-> FALSE, batches |-> Append(batches, b)]
                  ELSE BruteForceLoop(c, pts, i + 1, <<>>, Append(batches, b), expected)
             ELSE BruteForceLoop(c, pts, i + 1, b, batches, expected)

\* A verification that stops after the first full batch.
BruteForceVerifyFirstBatch(c, r, expected) ==
    BruteForceLoop(c, SubSeq(IterPoints(r), 1, Min(c.batch_size, PointCount(r))),
                   1, <<>>, <<>>, expected)

BruteForceVerify(c, r, expected) ==
    BruteForceLoop(c, IterPoints(r), 1, <<>>, <<>>, expected)

RECURSIVE SumLen(_)
SumLen(batches) ==
    IF batches = <<>> THEN 0 ELSE Len(Head(batches)) + SumLen(Tail(batches))

LookupCall(ilat, ilon) == [op |-> "lookup", points |-> << <<ilat, ilon>> >>]

BatchCalls(batches) ==
    [i \in 1..Len(batches) |-> [op |-> "lookup_batch", points |-> batches[i]]]

\* A leaf counted as a leaf and not as a node.
LeafCreatedNotANode(st) ==
    [st EXCEPT !.leaves_created = @ + 1]

\* The statistics of one more leaf.
LeafCreated(st) ==
    [st EXCEPT !.nodes_created = @ + 1, !.leaves_created = @ + 1]

\* The outcome of a _build_node call: the leaf it returns (kind "leaf") or
\* its decision to split (kind "split"), with the statistics after it and
\* the calls it made on the oracle.
Outcome(kind, node, st, calls) ==
    [kind |-> kind, node |-> node, stats |-> st, calls |-> calls]

\* A leaf from one oracle.lookup (the single-point and max-depth returns).
LookupLeaf(st, ilat, ilon) ==
    Outcome("leaf", LeafNode(OracleLookup(ilat, ilon)),
            LeafCreated([st EXCEPT !.oracle_calls = @ + 1]),
            <<LookupCall(ilat, ilon)>>)

\* A step B that trusts the sample and never looks at the verification.
AfterVerifyUnchecked(st, candidate, verify, calls) ==
    Outcome("leaf", LeafNode(candidate), LeafCreated(st), calls)

\* Step B of _build_node once _brute_force_verify has returned `verify`
\* (st counts the verification and its oracle calls).
AfterVerify(st, candidate, verify, calls) ==
    IF verify.ok
    THEN Outcome("leaf", LeafNode(candidate), LeafCreated(st), calls)
    ELSE Outcome("split", None,
                 [st EXCEPT !.brute_force_detected_mixed = @ + 1], calls)

\* Step B that takes the sample's word for a rectangle too large to verify.
VerifyStepTrusting(c, st, r, candidate, verify, calls) ==
    IF PointCount(r) <= c.brute_force_threshold
    THEN AfterVerify([st EXCEPT !.brute_force_verifications = @ + 1,
                                !.oracle_calls = @ + SumLen(verify.batches)],
                     candidate, verify, calls \o BatchCalls(verify.batches))
    ELSE Outcome("leaf", LeafNode(candidate), LeafCreated(st), calls)

\* Step B with a threshold the point count has to stay below.
VerifyStepStrict(c, st, r, candidate, verify, calls) ==
    IF PointCount(r) < c.brute_force_threshold
    THEN AfterVerify([st EXCEPT !.brute_force_verifications = @ + 1,
                                !.oracle_calls = @ + SumLen(verify.batches)],
                     candidate, verify, calls \o BatchCalls(verify.batches))
    ELSE Outcome("split", None, st, calls)

\* Step B of _build_node: every sample agrees on `candidate`.
VerifyStep(c, st, r, candidate, verify, calls) ==
    IF PointCount(r) <= c.brute_force_threshold
    THEN AfterVerify([st EXCEPT !.brute_force_verifications = @ + 1,
                                !.oracle_calls = @ + SumLen(verify.batches)],
                     candidate, verify, calls \o BatchCalls(verify.batches))
    ELSE Outcome("split", None, st, calls)

\* _build_node once _sample_rectangle has returned `sample` (st counts the
\* oracle calls of the sample).
AfterSample(c, st, r, sample, calls) ==
    IF Cardinality(sample.ids) > 1
    THEN Outcome("split", None,
                 [st EXCEPT !.sampling_detected_mixed = @ + 1], calls)
    ELSE IF sample.ids = {}
    THEN Outcome("StopIteration", None, st, calls)
    ELSE VerifyStep(c, st, r, CHOOSE id \in sample.ids : TRUE,
                    BruteForceVerify(c, r, CHOOSE id \in sample.ids : TRUE), calls)

SampleStep(c, st, r, sample) ==
    AfterSample(c, [st EXCEPT !.oracle_calls = @ + Len(sample.batch)], r, sample,
                BatchCalls(<<sample.batch>>))

\* _build_node with a depth test that lets the node at max_depth split.
BuildNodeAtPastCap(c, st, r, depth) ==
    IF IsSinglePoint(r)
    THEN LookupLeaf(st, r.y0, r.x0)
    ELSE IF depth > c.max_depth
    THEN LookupLeaf(st, Midpoints(r).ym, Midpoints(r).xm)
    ELSE SampleStep(c, st, r, SampleRectangle(c, r))

\* _build_node after it has recorded the depth in the statistics.
BuildNodeAt(c, st, r, depth) ==
    IF IsSinglePoint(r)
    THEN LookupLeaf(st, r.y0, r.x0)
    ELSE IF depth >= c.max_depth
    THEN LookupLeaf(st, Midpoints(r).ym, Midpoints(r).xm)
    ELSE SampleStep(c, st, r, SampleRectangle(c, r))

\* _build_node up to its return or its call of _split_node.
BuildNode(c, st, r, depth) ==
    BuildNodeAt(c, [st EXCEPT !.max_depth_reached = Max(@, depth)], r, depth)

(***************************************************************************)
(* Spec: build_quadtree run on one oracle and one set of arguments, then   *)
(* run a second time on the same inputs, with lookups on the built tree.   *)
(* _build_node and _split_node call each other; `stack` holds the          *)
(* _split_node activations, each with the children it has collected.       *)
(***************************************************************************)
\* A loop that takes the NE child (slot 1) for absent whenever it comes to it.
RECURSIVE SkipAbsentAndNorthEast(_)
SkipAbsentAndNorthEast(frame) ==
    IF Len(frame.children) < 4
       /\ (Subdivide(frame.rect).value[Len(frame.children) + 1] = None
           \/ Len(frame.children) = 1)
    THEN SkipAbsentAndNorthEast([frame EXCEPT !.children = Append(@, None)])
    ELSE frame

\* The for loop of _split_node passes the child rectangles that are None.
RECURSIVE SkipAbsent(_)
SkipAbsent(frame) ==
    IF Len(frame.children) < 4
       /\ Subdivide(frame.rect).value[Len(frame.children) + 1] = None
    THEN SkipAbsent([frame EXCEPT !.children = Append(@, None)])
    ELSE frame

\* The activation of _split_node(rect, depth) when its loop reaches its
\* first call of _build_node.
SplitFrame(r, depth) == SkipAbsent([rect |-> r, depth |-> depth, children |-> <<>>])

\* The stack once `node` is returned to the innermost activation.
ReturnTo(stk, node) ==
    [stk EXCEPT ![Len(stk)] = SkipAbsent([@ EXCEPT !.children = Append(@, node)])]

\* The rectangle and depth of the _build_node call that is due.
DueCall ==
    IF stack = <<>>
    THEN [rect |-> FullBounds(config.precision), depth |-> 0]
    ELSE LET top == stack[Len(stack)]
         IN  [rect |-> Subdivide(top.rect).value[Len(top.children) + 1],
              depth |-> top.depth + 1]

Init ==
    /\ pc = "start"
    /\ oracle \in OracleInputs
    /\ config \in ConfigInputs
    /\ stats = None
    /\ stack = <<>>
    /\ tree = None
    /\ oracle_log = <<>>
    /\ first = None
    /\ RectIdle /\ ParIdle /\ SerIdle /\ LookupIdle /\ TableIdle /\ DbIdle /\ QuantIdle

\* build_quadtree up to the first call of _build_node: the configuration is
\* validated, the builder constructed and its statistics reset.
BuildQuadtree ==
    /\ pc = "start"
    /\ IF PostInit(config) # None
       THEN /\ pc' = "ValueError"
            /\ UNCHANGED <<stats, stack, tree>>
       ELSE /\ pc' = "build"
            /\ stats' = BuilderStats
            /\ stack' = <<>>
            /\ tree' = None
    /\ UNCHANGED <<oracle, config, oracle_log, first>>
    /\ UNCHANGED <<rectVars, parVars, serVars, lookupVars, tableVars, dbVars,
               quantVars>>

\* One call of _build_node, up to its return of a leaf or its entry into
\* _split_node.
BuildNodeCall ==
    /\ pc = "build"
    /\ IF stack = <<>> THEN TRUE ELSE Len(stack[Len(stack)].children) < 4
    /\ \E d \in {DueCall} : \E b \in {BuildNode(config, stats, d.rect, d.depth)} :
           /\ stats' = b.stats
           /\ oracle_log' = oracle_log \o b.calls
           /\ IF b.kind = "leaf"
              THEN IF stack = <<>>
                   THEN /\ tree' = QuadTree(b.node, FullBounds(config.precision),
                                            config.precision)
                        /\ pc' = "done"
                        /\ stack' = stack
                   ELSE /\ stack' = ReturnTo(stack, b.node)
                        /\ UNCHANGED <<tree, pc>>
              ELSE IF b.kind = "split"
              THEN /\ stack' = Append(stack, SplitFrame(d.rect, d.depth))
                   /\ UNCHANGED <<tree, pc>>
              ELSE /\ pc' = b.kind
                   /\ UNCHANGED <<stack, tree>>
    /\ UNCHANGED <<oracle, config, first>>
    /\ UNCHANGED <<rectVars, parVars, serVars, lookupVars, tableVars, dbVars,
               quantVars>>

\* The end of _split_node: the four slots are wrapped in an InternalNode,
\* which is returned to the caller.
SplitNodeReturn ==
    /\ pc = "build"
    /\ stack # <<>>
    /\ Len(stack[Len(stack)].children) = 4
    /\ \E node \in {InternalNode(stack[Len(stack)].children)} :
       \E rest \in {SubSeq(stack, 1, Len(stack) - 1)} :
           /\ stats' = [stats EXCEPT !.nodes_created = @ + 1,
                                     !.internal_nodes_created = @ + 1]
           /\ IF rest = <<>>
              THEN /\ tree' = QuadTree(node, FullBounds(config.precision),
                                       config.precision)
                   /\ pc' = "done"
                   /\ stack' = rest
              ELSE /\ stack' = ReturnTo(rest, node)
                   /\ UNCHANGED <<tree, pc>>
    /\ UNCHANGED <<oracle, config, oracle_log, first>>
    /\ UNCHANGED <<rectVars, parVars, serVars, lookupVars, tableVars, dbVars,
               quantVars>>

\* build_quadtree is called again with the same oracle and arguments.
BuildAgain ==
    /\ pc = "done"
    /\ first = None
    /\ first' = [tree |-> tree, stats |-> stats]
    /\ pc' = "start"
    /\ query' = None
    /\ result' = None
    /\ UNCHANGED <<oracle, config, stats, stack, tree, oracle_log>>
    /\ UNCHANGED <<rectVars, parVars, serVars, tableVars, dbVars, quantVars>>

\* The lattice coordinates a lookup of the built tree is given: those of
\* the grid.
LatInputs == 0..GetGridDimensions(0).max_ilat

LonInputs == 0..GetGridDimensions(0).max_ilon

\* QuadTree.lookup on the built tree.  A lookup changes nothing a later
\* lookup reads, so the tree is queried once; the tree of the second build
\* is compared with the first and not queried.
Lookup ==
    /\ pc = "done"
    /\ first = None
    /\ query = None
    /\ \E ilat \in LatInputs, ilon \in LonInputs :
        /\ query' = <<ilat, ilon>>
        /\ result' = TreeLookup(tree, ilat, ilon)
    /\ UNCHANGED <<pc, tree, buildVars, rectVars, parVars, serVars,
                   tableVars, dbVars, quantVars>>

Next == BuildQuadtree \/ BuildNodeCall \/ SplitNodeReturn \/ BuildAgain \/ Lookup

Spec == Init /\ [][Next]_vars

(***************************************************************************)
(* Properties of the built tree.                                           *)
(***************************************************************************)
\* The leaves below a node of rectangle r at depth d, each with its
\* rectangle (derived by repeated subdivide) and its depth.
RECURSIVE Leaves(_, _, _)
Leaves(node, r, d) ==
    IF node.kind = "leaf"
    THEN {[rect |-> r, country_id |-> node.country_id, depth |-> d]}
    ELSE UNION {Leaves(node.children[i], ChildRects(r)[i], d + 1) :
                  i \in {j \in 1..4 : node.children[j] # None /\ ChildRects(r)[j] # None}}

\* Every lattice point of the rectangle has the oracle value c.
Uniform(r, c) == \A p \in Points(r) : OracleLookup(p[2], p[1]) = c

\* The build has returned a tree.
Built == pc = "done"

Lattice(precision) ==
    (0..GetGridDimensions(precision).max_ilat) \X (0..GetGridDimensions(precision).max_ilon)

\* C2: when no node of the build lies at max_depth, the lookup of the
\* built tree equals the oracle at every lattice point of the grid.
TreeMatchesOracle ==
    (Built /\ stats.max_depth_reached < config.max_depth) =>
        \A p \in Lattice(config.precision) :
            \E found \in {TreeLookup(tree, p[1], p[2])} :
                /\ found.kind = "ok"
                /\ found.country_id = OracleLookup(p[1], p[2])

\* A lookup that went two levels down a tree built below max_depth from a
\* sample of more than one point.
TreeMatchesOracleWitness ==
    /\ Built
    /\ stats.max_depth_reached < config.max_depth
    /\ config.sample_k > 1
    /\ stats.brute_force_detected_mixed > 0
    /\ result # None
    /\ result.kind = "ok"
    /\ result.visited = 3
    /\ result.country_id = OracleLookup(query[1], query[2])

\* The null slots of every Internal node are the None entries of subdivide
\* of its rectangle.
RECURSIVE NullSlotsMatch(_, _)
NullSlotsMatch(node, r) ==
    \/ node.kind = "leaf"
    \/ /\ ~IsSinglePoint(r)
       /\ \E child_rects \in {ChildRects(r)} :
             \A i \in 1..4 :
                 IF node.children[i] = None THEN child_rects[i] = None
                 ELSE /\ child_rects[i] # None
                      /\ NullSlotsMatch(node.children[i], child_rects[i])

\* C7: on a built tree, the lookup of every lattice point inside the bounds
\* returns a country id, and the null slots are those of subdivide.
NoNullDescent ==
    Built =>
        /\ NullSlotsMatch(tree.root, tree.bounds)
        /\ \A p \in Lattice(config.precision) : TreeLookup(tree, p[1], p[2]).kind = "ok"

\* A lookup descended through a node that has null slots.
NoNullDescentWitness ==
    /\ Built
    /\ tree.root.kind = "internal"
    /\ \E i \in 1..4 :
          /\ tree.root.children[i].kind = "internal"
          /\ tree.root.children[i].children[1] = None
          /\ result # None
          /\ result.kind = "ok"
          /\ result.visited = 3
          /\ Contains(ChildRects(tree.bounds)[i], query[2], query[1])

\* The Internal nodes of a subtree.
RECURSIVE InternalNodes(_)
InternalNodes(node) ==
    IF node = None \/ node.kind = "leaf" THEN {}
    ELSE {node} \cup UNION {InternalNodes(node.children[i]) : i \in 1..4}

\* C15: every Internal node of a built tree has exactly 4 child slots, of
\* which at least two are not None.
InternalChildCount ==
    Built =>
        \A n \in InternalNodes(tree.root) :
            /\ Len(n.children) = 4
            /\ Cardinality({i \in 1..4 : n.children[i] # None}) >= 2

\* A built tree has an Internal node with exactly two children, and one
\* with four.
InternalChildCountWitness ==
    /\ Built
    /\ \E n \in InternalNodes(tree.root) :
          Cardinality({i \in 1..4 : n.children[i] # None}) = 2
    /\ \E n \in InternalNodes(tree.root) :
          Cardinality({i \in 1..4 : n.children[i] # None}) = 4

\* node_count and leaf_count of a subtree.
RECURSIVE NodeCount(_)
NodeCount(node) ==
    IF node = None THEN 0
    ELSE IF node.kind = "leaf" THEN 1
    ELSE 1 + NodeCount(node.children[1]) + NodeCount(node.children[2])
           + NodeCount(node.children[3]) + NodeCount(node.children[4])

RECURSIVE LeafCount(_)
LeafCount(node) ==
    IF node = None THEN 0
    ELSE IF node.kind = "leaf" THEN 1
    ELSE LeafCount(node.children[1]) + LeafCount(node.children[2])
         + LeafCount(node.children[3]) + LeafCount(node.children[4])

\* C22: when build returns, nodes_created = leaves_created +
\* internal_nodes_created, on the first build and on a build repeated on
\* the same inputs: the statistics are reset, they count the nodes of the
\* tree just built.
StatsRelationship ==
    Built =>
        /\ stats.nodes_created = stats.leaves_created + stats.internal_nodes_created
        /\ stats.nodes_created = NodeCount(tree.root)
        /\ stats.leaves_created = LeafCount(tree.root)

\* A second build returned a tree of leaves and Internal nodes.
StatsRelationshipWitness ==
    /\ Built
    /\ first # None
    /\ first.stats.nodes_created > 0
    /\ stats.internal_nodes_created > 1
    /\ stats.leaves_created > 4

\* The <<ilat, ilon>> points the oracle was asked about.
Queried ==
    UNION {{oracle_log[i].points[j] : j \in 1..Len(oracle_log[i].points)} :
             i \in 1..Len(oracle_log)}

\* The leaf covers no more points than the threshold, all of them queried.
VerifiedLeaf(l) ==
    /\ PointCount(l.rect) <= config.brute_force_threshold
    /\ \A p \in Points(l.rect) : <<p[2], p[1]>> \in Queried

RECURSIVE MaxDepth(_)
MaxDepth(node) ==
    IF node = None \/ node.kind = "leaf" THEN 0
    ELSE 1 + Max(Max(MaxDepth(node.children[1]), MaxDepth(node.children[2])),
                 Max(MaxDepth(node.children[3]), MaxDepth(node.children[4])))

\* A _build_node call is due on a rectangle of several points at
\* max_depth or deeper.
AtDepthCap ==
    /\ pc = "build"
    /\ IF stack = <<>> THEN TRUE ELSE Len(stack[Len(stack)].children) < 4
    /\ ~IsSinglePoint(DueCall.rect)
    /\ DueCall.depth >= config.max_depth

\* The step of the call that is due makes one oracle.lookup, at the
\* midpoint, and returns a leaf of that id to its caller: nothing is
\* sampled, no _split_node is entered.
MidpointLeafStep ==
    \E m \in {Midpoints(DueCall.rect)} :
        /\ oracle_log' = Append(oracle_log, LookupCall(m.ym, m.xm))
        /\ stats'.oracle_calls = stats.oracle_calls + 1
        /\ stats'.leaves_created = stats.leaves_created + 1
        /\ IF stack = <<>>
           THEN pc' = "done" /\ tree'.root = LeafNode(OracleLookup(m.ym, m.xm))
           ELSE /\ pc' = "build"
                /\ Len(stack') = Len(stack)
                /\ stack'[Len(stack)].children[Len(stack[Len(stack)].children) + 1]
                      = LeafNode(OracleLookup(m.ym, m.xm))

\* C27: _build_node on a rectangle of several points at depth >= max_depth
\* makes exactly one oracle query, at the midpoint (ym, xm), and returns a
\* leaf of that id without sampling or splitting; so a built tree is no
\* deeper than max_depth, and neither is stats.max_depth_reached.
DepthCap ==
    /\ [][AtDepthCap => MidpointLeafStep]_vars
    /\ [](Built => /\ MaxDepth(tree.root) <= config.max_depth
                   /\ stats.max_depth_reached <= config.max_depth)

\* A built tree as deep as max_depth, with a leaf at that depth over a
\* rectangle of several points on which the oracle is not uniform.
DepthCapWitness ==
    /\ Built
    /\ MaxDepth(tree.root) = config.max_depth
    /\ stats.max_depth_reached = config.max_depth
    /\ \E l \in Leaves(tree.root, tree.bounds, 0) :
          /\ l.depth = config.max_depth
          /\ PointCount(l.rect) > 1
          /\ l.country_id = OracleLookup(Midpoints(l.rect).ym, Midpoints(l.rect).xm)
          /\ ~Uniform(l.rect, l.country_id)

(***************************************************************************)
(* SpecTermination: one build with the default max_depth, which no         *)
(* rectangle of the grid reaches.  The build is sequential code: a         *)
(* _build_node call that is due is made, a _split_node whose loop is over  *)
(* returns.  _build_node returns or splits for every rectangle and oracle, *)
(* so BuildNodeCall is enabled exactly when a call is due, and its weak    *)
(* fairness is written with that state predicate for ENABLED.              *)
(***************************************************************************)
\* A _build_node call is due: the build has started and the innermost
\* _split_node, if any, has children left to build.
BuildNodeDue ==
    /\ pc = "build"
    /\ IF stack = <<>> THEN TRUE ELSE Len(stack[Len(stack)].children) < 4

InitTermination ==
    /\ Init
    /\ PostInit(config) = None
    /\ config.max_depth = DefaultMaxDepth
    /\ config.seed = 0

NextTermination == BuildQuadtree \/ BuildNodeCall \/ SplitNodeReturn

SpecTermination ==
    /\ InitTermination
    /\ [][NextTermination]_vars
    /\ WF_vars(BuildQuadtree)
    /\ WF_vars(SplitNodeReturn)
    /\ ([]<>(~BuildNodeDue) \/ []<><<BuildNodeCall>>_vars)

\* Each rectangle subdivide returns has fewer points than its parent.
ChildrenShrink(r) ==
    \A i \in 1..4 :
        Subdivide(r).value[i] # None => PointCount(Subdivide(r).value[i]) < PointCount(r)

\* The rectangles being split: none is a single point, each lies in a
\* quadrant of the one before, and all their children are smaller.
SplitsShrink ==
    /\ \A i \in 1..Len(stack) :
          ~IsSinglePoint(stack[i].rect) /\ ChildrenShrink(stack[i].rect)
    /\ \A i \in 2..Len(stack) :
          /\ stack[i].rect \in {ChildRects(stack[i - 1].rect)[j] : j \in 1..4}
          /\ PointCount(stack[i].rect) < PointCount(stack[i - 1].rect)

\* A _build_node call is due on a single point.
SinglePointDue == BuildNodeDue /\ IsSinglePoint(DueCall.rect)

\* The step of the call that is due makes one oracle.lookup, at the point,
\* and returns a leaf of that id: no _split_node is entered.
SinglePointLeafStep ==
    /\ oracle_log' = Append(oracle_log, LookupCall(DueCall.rect.y0, DueCall.rect.x0))
    /\ stats'.oracle_calls = stats.oracle_calls + 1
    /\ Len(stack') = Len(stack)
    /\ stack # <<>> =>
          stack'[Len(stack)].children[Len(stack[Len(stack)].children) + 1]
              = LeafNode(OracleLookup(DueCall.rect.y0, DueCall.rect.x0))

\* C28: for every oracle the build eventually returns, with a max_depth
\* that is never reached: every rectangle subdivide produces has fewer
\* lattice points than its parent, and a single point becomes a leaf after
\* one oracle query and is never subdivided.
BuildTerminates ==
    /\ (pc = "start") ~> Built
    /\ []SplitsShrink
    /\ [][SinglePointDue => SinglePointLeafStep]_vars

\* A tree returned by a build that split down to single points.
BuildTerminatesWitness ==
    /\ Built
    /\ stats.max_depth_reached > 2
    /\ stats.max_depth_reached < config.max_depth
    /\ \E l \in Leaves(tree.root, tree.bounds, 0) :
          IsSinglePoint(l.rect) /\ l.depth = stats.max_depth_reached

\* The configuration errors C9 lists.
InvalidArguments(c) ==
    \/ c.precision < 0
    \/ c.sample_k < 1
    \/ c.brute_force_threshold < 1
    \/ c.max_depth < 1
    \/ c.batch_size < 1

\* C9: with an invalid configuration build_quadtree raises ValueError, the
\* oracle is never called and no tree is produced.
ConfigRejectedBeforeOracle ==
    InvalidArguments(config) =>
        /\ pc \in {"start", "ValueError"}
        /\ oracle_log = <<>>
        /\ tree = None
        /\ stats = None

\* build_quadtree raised on a max_depth of 0, all else being valid.
ConfigRejectedWitness ==
    /\ pc = "ValueError"
    /\ config.max_depth < 1
    /\ config.precision >= 0 /\ config.sample_k >= 1
    /\ config.brute_force_threshold >= 1 /\ config.batch_size >= 1
    /\ oracle_log = <<>>

(***************************************************************************)
(* serialize.py: TreeSerializer.  Bytes are the integers 0..255.           *)
(***************************************************************************)
TAG_INTERNAL == 0

TAG_LEAF_BASE == 1

\* An encoder whose loop tests `value > 0x80`.
RECURSIVE EncodeVarintOffByOne(_)
EncodeVarintOffByOne(value) ==
    IF value > 128
    THEN <<(value % 128) + 128>> \o EncodeVarintOffByOne(value \div 128)
    ELSE <<value>>

\* _encode_varint: (value & 0x7F) | 0x80 is (value % 128) + 128, and
\* value >> 7 is value \div 128.
RECURSIVE EncodeVarint(_)
EncodeVarint(value) ==
    IF value >= 128
    THEN <<(value % 128) + 128>> \o EncodeVarint(value \div 128)
    ELSE <<value>>

\* struct.pack("<H", value): two bytes, low byte first; struct.error (the
\* empty record here) outside 0..65535.
PackU16(value) ==
    IF value < 0 \/ value > 65535
    THEN [kind |-> "struct.error"]
    ELSE [kind |-> "ok", value |-> <<value % 256, value \div 256>>]

\* The bytes of a leaf.
SerializeLeaf(country_id, use_varint) ==
    IF use_varint
    THEN [kind |-> "ok", value |-> <<TAG_LEAF_BASE>> \o EncodeVarint(country_id)]
    ELSE IF country_id < 255
    THEN [kind |-> "ok", value |-> <<TAG_LEAF_BASE + country_id>>]
    ELSE IF PackU16(country_id).kind = "ok"
    THEN [kind |-> "ok", value |-> <<255>> \o PackU16(country_id).value]
    ELSE PackU16(country_id)

\* The presence byte numbered from the other end: slot 0 in bit 3.
PresenceHighSlotFirst(children) ==
    (IF children[1] # None THEN 8 ELSE 0) + (IF children[2] # None THEN 4 ELSE 0)
    + (IF children[3] # None THEN 2 ELSE 0) + (IF children[4] # None THEN 1 ELSE 0)

\* The presence byte: bit i is set iff child slot i is not None.
Presence(children) ==
    (IF children[1] # None THEN 1 ELSE 0) + (IF children[2] # None THEN 2 ELSE 0)
    + (IF children[3] # None THEN 4 ELSE 0) + (IF children[4] # None THEN 8 ELSE 0)

\* Appends the encoding `more` to the buffer `sofar`, unless either failed.
Extend(sofar, more) ==
    IF sofar.kind # "ok" THEN sofar
    ELSE IF more.kind # "ok" THEN more
    ELSE [kind |-> "ok", value |-> sofar.value \o more.value]

\* _serialize_node: the bytes of the subtree, in preorder.
RECURSIVE SerializeNode(_, _)
SerializeNode(node, use_varint) ==
    IF node = None THEN [kind |-> "ok", value |-> <<>>]
    ELSE IF node.kind = "leaf" THEN SerializeLeaf(node.country_id, use_varint)
    ELSE Extend(Extend(Extend(Extend(
            [kind |-> "ok", value |-> <<TAG_INTERNAL, Presence(node.children)>>],
            SerializeNode(node.children[1], use_varint)),
            SerializeNode(node.children[2], use_varint)),
            SerializeNode(node.children[3], use_varint)),
            SerializeNode(node.children[4], use_varint))

\* TreeSerializer(use_varint).serialize(tree)
Serialize(t, use_varint) == SerializeNode(t.root, use_varint)

(***************************************************************************)
(* serialize.py: TreeDeserializer.  A read returns the value and the       *)
(* position after it, or the error it raised.                              *)
(***************************************************************************)
ReadByte(bytes, pos) ==
    IF pos >= Len(bytes)
    THEN ValueError("Unexpected end of data")
    ELSE [kind |-> "ok", value |-> bytes[pos + 1], pos |-> pos + 1]

\* _read_varint: result |= (b & 0x7F) << shift adds (b % 128) * 2^shift,
\* the bits of result being below the shift.
RECURSIVE ReadVarint(_, _, _, _)
ReadVarint(bytes, pos, acc, shift) ==
    IF ReadByte(bytes, pos).kind # "ok" THEN ReadByte(bytes, pos)
    ELSE IF bytes[pos + 1] < 128
    THEN [kind |-> "ok", value |-> acc + (bytes[pos + 1] % 128) * (2 ^ shift),
          pos |-> pos + 1]
    ELSE ReadVarint(bytes, pos + 1, acc + (bytes[pos + 1] % 128) * (2 ^ shift), shift + 7)

\* The country id of a leaf of tag `tag`, read from position pos.
ReadLeaf(bytes, pos, tag, use_varint) ==
    IF use_varint THEN ReadVarint(bytes, pos, 0, 0)
    ELSE IF tag = 255
    THEN IF pos + 2 > Len(bytes)
         THEN ValueError("Unexpected end of data")
         ELSE [kind |-> "ok", value |-> bytes[pos + 1] + bytes[pos + 2] * 256,
               pos |-> pos + 2]
    ELSE [kind |-> "ok", value |-> tag - TAG_LEAF_BASE, pos |-> pos]

\* presence & (1 << i)
PresenceBit(presence, i) == (presence \div (2 ^ i)) % 2 = 1

RECURSIVE DeserializeNode(_, _, _)
RECURSIVE DeserializeChildren(_, _, _, _, _, _)

\* The loop `for i in range(4)` of _deserialize_node from slot i on.
DeserializeChildren(bytes, pos, presence, i, children, use_varint) ==
    IF i = 4 THEN [kind |-> "ok", value |-> InternalNode(children), pos |-> pos]
    ELSE IF ~PresenceBit(presence, i)
    THEN DeserializeChildren(bytes, pos, presence, i + 1, Append(children, None),
                             use_varint)
    ELSE IF DeserializeNode(bytes, pos, use_varint).kind # "ok"
    THEN DeserializeNode(bytes, pos, use_varint)
    ELSE DeserializeChildren(bytes, DeserializeNode(bytes, pos, use_varint).pos,
                             presence, i + 1,
                             Append(children, DeserializeNode(bytes, pos, use_varint).value),
                             use_varint)

\* _deserialize_node from position pos.
DeserializeNode(bytes, pos, use_varint) ==
    IF ReadByte(bytes, pos).kind # "ok" THEN ReadByte(bytes, pos)
    ELSE IF bytes[pos + 1] = TAG_INTERNAL
    THEN IF ReadByte(bytes, pos + 1).kind # "ok" THEN ReadByte(bytes, pos + 1)
         ELSE DeserializeChildren(bytes, pos + 2, bytes[pos + 2], 0, <<>>, use_varint)
    ELSE IF ReadLeaf(bytes, pos + 1, bytes[pos + 1], use_varint).kind # "ok"
    THEN ReadLeaf(bytes, pos + 1, bytes[pos + 1], use_varint)
    ELSE [kind |-> "ok",
          value |-> LeafNode(ReadLeaf(bytes, pos + 1, bytes[pos + 1], use_varint).value),
          pos |-> ReadLeaf(bytes, pos + 1, bytes[pos + 1], use_varint).pos]

\* TreeDeserializer(use_varint).deserialize(data, bounds, precision)
Deserialize(bytes, bounds, precision, use_varint) ==
    IF DeserializeNode(bytes, 0, use_varint).kind # "ok"
    THEN DeserializeNode(bytes, 0, use_varint)
    ELSE [kind |-> "ok",
          value |-> QuadTree(DeserializeNode(bytes, 0, use_varint).value, bounds, precision)]

(***************************************************************************)
(* serialize.py: serialize_tree, deserialize_tree.  zlib is modelled as an *)
(* envelope: the two header bytes of a level-9 stream, the body, and a     *)
(* two-byte checksum of the body; decompress raises zlib.error on          *)
(* anything else.                                                          *)
(***************************************************************************)
RECURSIVE SumBytes(_)
SumBytes(bytes) == IF bytes = <<>> THEN 0 ELSE Head(bytes) + SumBytes(Tail(bytes))

Checksum(bytes) ==
    <<((1 + SumBytes(bytes)) % 65521) \div 256, ((1 + SumBytes(bytes)) % 65521) % 256>>

ZlibCompress(bytes) == <<120, 218>> \o bytes \o Checksum(bytes)

ZlibDecompress(bytes) ==
    IF Len(bytes) < 4 \/ SubSeq(bytes, 1, 2) # <<120, 218>>
    THEN [kind |-> "zlib.error"]
    ELSE IF SubSeq(bytes, Len(bytes) - 1, Len(bytes))
            # Checksum(SubSeq(bytes, 3, Len(bytes) - 2))
    THEN [kind |-> "zlib.error"]
    ELSE [kind |-> "ok", value |-> SubSeq(bytes, 3, Len(bytes) - 2)]

SerializeTree(t, compress) ==
    IF Serialize(t, TRUE).kind # "ok" THEN Serialize(t, TRUE)
    ELSE IF compress
    THEN [kind |-> "ok", value |-> ZlibCompress(Serialize(t, TRUE).value)]
    ELSE Serialize(t, TRUE)

DeserializeTree(bytes, bounds, precision, compressed) ==
    IF ~compressed THEN Deserialize(bytes, bounds, precision, TRUE)
    ELSE IF ZlibDecompress(bytes).kind # "ok" THEN ZlibDecompress(bytes)
    ELSE Deserialize(ZlibDecompress(bytes).value, bounds, precision, TRUE)

(***************************************************************************)
(* The trees given to the serializer and to the lookup: any tree the       *)
(* constructors LeafNode, InternalNode and QuadTree build, of depth <= 2.  *)
(***************************************************************************)
\* Country ids on both sides of the one-, two- and three-byte varints and
\* of the one-byte tag form.
IdInputs == {0, 1, 127, 128, 254, 255, 16383, 16384}

InnerInputs ==
    {InternalNode(<<None, None, LeafNode(1), LeafNode(16384)>>),
     InternalNode(<<LeafNode(127), LeafNode(0), LeafNode(128), None>>)}

SlotInputs == {None, LeafNode(0), LeafNode(128), LeafNode(255)} \cup InnerInputs

\* The trees of the documented examples: four leaves 1, 2, 3, 4; slots 0
\* and 2 only; slot 2 only.
ExampleInputs ==
    {InternalNode(<<LeafNode(1), LeafNode(2), LeafNode(3), LeafNode(4)>>),
     InternalNode(<<LeafNode(1), None, LeafNode(2), None>>),
     InternalNode(<<None, None, LeafNode(5), None>>)}

RootInputs ==
    {LeafNode(c) : c \in IdInputs}
    \cup {InternalNode(<<a, b, c, d>>) :
            a \in SlotInputs, b \in SlotInputs, c \in SlotInputs, d \in SlotInputs}
    \cup ExampleInputs

BoundsInputs == {Rectangle(0, x1, 0, y1) : x1 \in {1, MaxBound}, y1 \in {0, MaxBound}}

\* The serializer does not read the bounds: one rectangle is given.
SerBounds == Rectangle(0, MaxBound, 0, MaxBound)

(***************************************************************************)
(* SpecSer: a tree is serialized, and the bytes are deserialized.          *)
(***************************************************************************)
InitSer ==
    /\ pc = "tree"
    /\ tree \in {QuadTree(root, SerBounds, 0) : root \in RootInputs}
    /\ flags = None
    /\ data = <<>>
    /\ restored = None
    /\ RectIdle /\ BuildIdle /\ ParIdle /\ LookupIdle /\ TableIdle /\ DbIdle /\ QuantIdle

\* The bytes `bytes` were written by `writer`: they are kept, or the error is.
Written(writer, use_varint, compress, bytes) ==
    /\ flags' = [writer |-> writer, use_varint |-> use_varint, compress |-> compress]
    /\ IF bytes.kind = "ok"
       THEN pc' = "serialized" /\ data' = bytes.value
       ELSE pc' = bytes.kind /\ data' = data
    /\ UNCHANGED <<tree, restored, rectVars, buildVars, parVars, lookupVars,
                   tableVars, dbVars, quantVars>>

\* TreeSerializer(use_varint).serialize(tree)
SerializerSerialize ==
    /\ pc = "tree"
    /\ \E use_varint \in BOOLEAN :
          \E bytes \in {Serialize(tree, use_varint)} :
              Written("TreeSerializer", use_varint, FALSE, bytes)

\* serialize_tree(tree, compress)
CallSerializeTree ==
    /\ pc = "tree"
    /\ \E compress \in BOOLEAN :
          \E bytes \in {SerializeTree(tree, compress)} :
              Written("serialize_tree", TRUE, compress, bytes)

\* `value` is what `reader` returned or raised.
Read(reader, use_varint, compressed, value) ==
    /\ restored' = [reader |-> reader, use_varint |-> use_varint,
                    compressed |-> compressed, value |-> value]
    /\ pc' = "deserialized"
    /\ UNCHANGED <<tree, flags, data, rectVars, buildVars, parVars, lookupVars,
                   tableVars, dbVars, quantVars>>

\* TreeDeserializer(use_varint).deserialize(data, bounds, precision)
DeserializerDeserialize ==
    /\ pc = "serialized"
    /\ \E use_varint \in BOOLEAN :
          \E value \in {Deserialize(data, tree.bounds, tree.precision, use_varint)} :
              Read("TreeDeserializer", use_varint, FALSE, value)

\* deserialize_tree(data, bounds, precision, compressed)
CallDeserializeTree ==
    /\ pc = "serialized"
    /\ \E compressed \in BOOLEAN :
          \E value \in {DeserializeTree(data, tree.bounds, tree.precision, compressed)} :
              Read("deserialize_tree", TRUE, compressed, value)

NextSer ==
    SerializerSerialize \/ CallSerializeTree \/ DeserializerDeserialize
    \/ CallDeserializeTree

SpecSer == InitSer /\ [][NextSer]_vars

\* The lattice points <<ilat, ilon>> inside the bounds of a tree.
PointsInBounds(t) == (t.bounds.y0..t.bounds.y1) \X (t.bounds.x0..t.bounds.x1)

\* C30: a tree of ids in 0..65535 written by TreeSerializer without varints
\* and read back by TreeDeserializer without varints is restored equal, the
\* ids 254 and 255 at the boundary of the one-byte tag form included.
NonVarintRoundTrip ==
    (/\ pc = "deserialized"
     /\ flags.writer = "TreeSerializer" /\ ~flags.use_varint
     /\ restored.reader = "TreeDeserializer" /\ ~restored.use_varint) =>
        /\ restored.value.kind = "ok"
        /\ restored.value.value = tree

\* C4: a tree written with varints and read back with varints, with
\* compression on both sides or on neither, is restored structurally equal,
\* and every lookup on the restored tree gives what it gives on the tree.
SerializationRoundTrip ==
    (/\ pc = "deserialized"
     /\ flags.use_varint /\ restored.use_varint
     /\ flags.compress = restored.compressed) =>
        /\ restored.value.kind = "ok"
        /\ restored.value.value = tree
        /\ \A p \in PointsInBounds(tree) :
              TreeLookup(restored.value.value, p[1], p[2]) = TreeLookup(tree, p[1], p[2])

\* A tree of depth 2 with a null slot and a two-byte varint went through
\* serialize_tree and deserialize_tree with compression.
SerializationRoundTripWitness ==
    /\ pc = "deserialized"
    /\ flags.writer = "serialize_tree" /\ flags.compress
    /\ restored.reader = "deserialize_tree" /\ restored.compressed
    /\ tree.root.kind = "internal"
    /\ tree.root.children[1] = None
    /\ tree.root.children[2] = LeafNode(128)
    /\ tree.root.children[3] \in InnerInputs
    /\ restored.value.kind = "ok"
    /\ restored.value.value = tree

\* The nodes of a subtree in preorder: the node, then the nodes of its
\* present children from slot 0 (NW) to slot 3 (SE).
RECURSIVE Preorder(_)
Preorder(node) ==
    IF node = None THEN <<>>
    ELSE IF node.kind = "leaf" THEN <<node>>
    ELSE <<node>> \o Preorder(node.children[1]) \o Preorder(node.children[2])
         \o Preorder(node.children[3]) \o Preorder(node.children[4])

\* The bytes one node contributes to the stream.
RECURSIVE SlotBits(_, _)
SlotBits(children, i) ==
    IF i = 4 THEN 0
    ELSE (IF children[i + 1] # None THEN 2 ^ i ELSE 0) + SlotBits(children, i + 1)

NodeRecord(node) ==
    IF node.kind = "leaf" THEN <<1>> \o EncodeVarint(node.country_id)
    ELSE <<0, SlotBits(node.children, 0)>>

RECURSIVE Records(_)
Records(listed) ==
    IF listed = <<>> THEN <<>> ELSE NodeRecord(Head(listed)) \o Records(Tail(listed))

\* C14: with varint encoding, the bytes TreeSerializer.serialize writes are
\* the records of the nodes in preorder and nothing else: tag 0x01 and the
\* varint of the id for a Leaf, tag 0x00 and the presence byte (bit i for
\* slot i) for an Internal node, whose present children follow from slot 0
\* to slot 3; four leaves 1, 2, 3, 4 give 00 0F 01 01 01 02 01 03 01 04, and
\* slots 0 and 2 alone give presence byte 0x05.
WireFormatShape ==
    (/\ pc \in {"serialized", "deserialized"}
     /\ flags.writer = "TreeSerializer" /\ flags.use_varint) =>
        /\ data = Records(Preorder(tree.root))
        /\ tree.root = InternalNode(<<LeafNode(1), LeafNode(2), LeafNode(3), LeafNode(4)>>)
              => data = <<0, 15, 1, 1, 1, 2, 1, 3, 1, 4>>
        /\ (/\ tree.root.kind = "internal"
            /\ tree.root.children[1] # None /\ tree.root.children[2] = None
            /\ tree.root.children[3] # None /\ tree.root.children[4] = None)
              => data[2] = 5

\* TreeSerializer wrote, with varints, a tree of depth 2 whose root has slots
\* 0 and 2 only, the inner node in slot 2 holding a three-byte varint.
WireFormatShapeWitness ==
    /\ pc = "serialized"
    /\ flags.writer = "TreeSerializer" /\ flags.use_varint
    /\ tree.root = InternalNode(<<LeafNode(128), None,
                                  InternalNode(<<None, None, LeafNode(1), LeafNode(16384)>>),
                                  None>>)
    /\ data = <<0, 5, 1, 128, 1, 0, 12, 1, 1, 1, 128, 128, 1>>

\* Spec, with the serializer applied to the built tree.
\* C18: when the oracle gives one id c on the whole grid and
\* brute_force_threshold is at least the point count of the grid, the built
\* tree is the single Leaf(c): node_count = leaf_count = 1, and its
\* uncompressed serialization is 0x01 followed by the varint of c (01 07 for
\* c = 7).
UniformCoalesces ==
    \A c \in {OracleLookup(0, 0)} :
        (/\ Built
         /\ Uniform(FullBounds(config.precision), c)
         /\ config.brute_force_threshold >= PointCount(FullBounds(config.precision))) =>
            /\ tree.root = LeafNode(c)
            /\ NodeCount(tree.root) = 1 /\ LeafCount(tree.root) = 1
            /\ SerializeTree(tree, FALSE) = [kind |-> "ok", value |-> <<1>> \o EncodeVarint(c)]
            /\ c = 7 => Serialize(tree, TRUE).value = <<1, 7>>

\* The grid of the uniform oracle of id 7 was built with a threshold equal
\* to its point count, and verified by brute force.
UniformCoalescesWitness ==
    /\ Built
    /\ Uniform(FullBounds(config.precision), 7)
    /\ config.brute_force_threshold = PointCount(FullBounds(config.precision))
    /\ stats.brute_force_verifications = 1
    /\ tree.root = LeafNode(7)

(***************************************************************************)
(* SpecLookup: QuadTree.lookup on a given tree, at points inside and       *)
(* outside its bounds.                                                     *)
(***************************************************************************)
InitLookup ==
    /\ pc = "given"
    /\ tree \in {QuadTree(root, b, 0) : root \in RootInputs, b \in BoundsInputs}
    /\ query = None
    /\ result = None
    /\ RectIdle /\ BuildIdle /\ ParIdle /\ SerIdle /\ TableIdle /\ DbIdle /\ QuantIdle

LookupGiven ==
    /\ pc = "given"
    /\ \E ilat \in -1..(MaxBound + 1), ilon \in -1..(MaxBound + 1) :
        /\ query' = <<ilat, ilon>>
        /\ result' = TreeLookup(tree, ilat, ilon)
    /\ UNCHANGED <<pc, tree, buildVars, rectVars, parVars, serVars,
                   tableVars, dbVars, quantVars>>

NextLookup == LookupGiven

SpecLookup == InitLookup /\ [][NextLookup]_vars

\* The lookup raised the out-of-bounds error.
OutOfBoundsError ==
    /\ result.kind = "ValueError"
    /\ result.msg = "Point outside tree bounds"

\* C10: a lookup outside the bounds raises the out-of-bounds error without
\* entering a node; a lookup inside the bounds never raises that error.
OutOfBoundsLookup ==
    result # None =>
        IF tree.bounds.x0 <= query[2] /\ query[2] <= tree.bounds.x1
           /\ tree.bounds.y0 <= query[1] /\ query[1] <= tree.bounds.y1
        THEN ~OutOfBoundsError
        ELSE OutOfBoundsError /\ result.visited = 0

\* A lookup beyond x1 but within the range of y raised, on a tree whose
\* root is an Internal node.
OutOfBoundsLookupWitness ==
    /\ pc = "given"
    /\ result # None
    /\ tree.root.kind = "internal"
    /\ query[2] = tree.bounds.x1 + 1
    /\ query[2] <= tree.bounds.y1
    /\ query[1] \in tree.bounds.y0..tree.bounds.y1
    /\ OutOfBoundsError

\* C3: a second build of the same oracle and arguments returns the same
\* tree and the same statistics, and the trees serialize to the same bytes.
Determinism ==
    (Built /\ first # None) =>
        /\ tree = first.tree
        /\ stats = first.stats
        /\ Serialize(tree, TRUE).kind = "ok"
        /\ Serialize(tree, TRUE) = Serialize(first.tree, TRUE)

\* Two builds in which a child of the root was sampled with random points
\* and split, after a sample found a rectangle mixed and a verification ran.
DeterminismWitness ==
    /\ Built
    /\ first # None
    /\ tree.root.kind = "internal"
    /\ \E i \in Present(ChildRects(tree.bounds)) :
          /\ RandomlySampled(config, ChildRects(tree.bounds)[i])
          /\ tree.root.children[i].kind = "internal"
    /\ stats.sampling_detected_mixed > 0
    /\ stats.brute_force_verifications > 0

(***************************************************************************)
(* SpecPar: the sequential build, then a build of the same inputs in which *)
(* the _build_node calls of sibling rectangles run as independent          *)
(* processes: any call that is due may run next.  `tasks` holds the calls  *)
(* that are due, `nodes` the nodes returned and the _split_node            *)
(* activations waiting for their children (node = None), by path from the  *)
(* root.  The calls of concurrent builds are not ordered, so oracle_log is *)
(* left as the sequential build left it.                                   *)
(***************************************************************************)
InitPar ==
    /\ Init
    /\ PostInit(config) = None

Task(path, r, depth) == [path |-> path, rect |-> r, depth |-> depth]

\* build() run again, its _build_node calls being processes.
StartParallel ==
    /\ pc = "done"
    /\ first = None
    /\ stats.nodes_created <= MaxParNodes
    /\ first' = [tree |-> tree, stats |-> stats]
    /\ stats' = BuilderStats
    /\ tasks' = {Task(<<>>, FullBounds(config.precision), 0)}
    /\ nodes' = {}
    /\ reordered' = FALSE
    /\ pc' = "par"
    /\ UNCHANGED <<oracle, config, stack, tree, oracle_log>>
    /\ UNCHANGED <<rectVars, serVars, lookupVars, tableVars, dbVars, quantVars>>

\* The calls _split_node makes for the present children of a rectangle.
ChildTasks(t) ==
    {Task(Append(t.path, i), ChildRects(t.rect)[i], t.depth + 1) :
        i \in Present(ChildRects(t.rect))}

\* The build returns `node` if it is the root.
ParReturn(path, node) ==
    IF path = <<>>
    THEN /\ tree' = QuadTree(node, FullBounds(config.precision), config.precision)
         /\ pc' = "pardone"
    ELSE UNCHANGED <<tree, pc>>

\* The sequential build calls _build_node for path a before path b: the
\* paths differ first at a slot where that of a is the earlier one.
PathBefore(a, b) ==
    \E i \in 1..Min(Len(a), Len(b)) :
        /\ a[i] < b[i]
        /\ \A j \in 1..(i - 1) : a[j] = b[j]

\* One _build_node call, of any rectangle that is due.
ParBuildNode ==
    /\ pc = "par"
    /\ \E t \in tasks : \E b \in {BuildNode(config, stats, t.rect, t.depth)} :
          /\ b.kind \in {"leaf", "split"}
          /\ reordered' = (reordered \/ \E u \in tasks : PathBefore(u.path, t.path))
          /\ stats' = b.stats
          /\ nodes' = nodes \cup {[path |-> t.path, rect |-> t.rect, node |-> b.node]}
          /\ IF b.kind = "leaf"
             THEN /\ tasks' = tasks \ {t}
                  /\ ParReturn(t.path, b.node)
             ELSE /\ tasks' = (tasks \ {t}) \cup ChildTasks(t)
                  /\ UNCHANGED <<tree, pc>>
    /\ UNCHANGED <<oracle, config, stack, oracle_log, first>>
    /\ UNCHANGED <<rectVars, serVars, lookupVars, tableVars, dbVars, quantVars>>

\* The nodes returned for the children of the activation e, by slot.
ReturnedChildren(e) ==
    {f \in nodes : Len(f.path) = Len(e.path) + 1
                   /\ SubSeq(f.path, 1, Len(e.path)) = e.path
                   /\ f.node # None}

\* The end of a _split_node whose children have all returned.
ParSplitNodeReturn ==
    /\ pc = "par"
    /\ \E e \in nodes :
          /\ e.node = None
          /\ {f.path[Len(f.path)] : f \in ReturnedChildren(e)} = Present(ChildRects(e.rect))
          /\ \E node \in {InternalNode(
                    [i \in 1..4 |->
                        IF ChildRects(e.rect)[i] = None THEN None
                        ELSE (CHOOSE f \in ReturnedChildren(e) : f.path[Len(f.path)] = i).node])} :
                /\ nodes' = (nodes \ ({e} \cup ReturnedChildren(e)))
                            \cup {[e EXCEPT !.node = node]}
                /\ ParReturn(e.path, node)
          /\ stats' = [stats EXCEPT !.nodes_created = @ + 1,
                                    !.internal_nodes_created = @ + 1]
    /\ UNCHANGED <<oracle, config, stack, oracle_log, first, tasks, reordered>>
    /\ UNCHANGED <<rectVars, serVars, lookupVars, tableVars, dbVars, quantVars>>

NextPar ==
    BuildQuadtree \/ BuildNodeCall \/ SplitNodeReturn \/ StartParallel
    \/ ParBuildNode \/ ParSplitNodeReturn

SpecPar == InitPar /\ [][NextPar]_vars

\* C8: whatever the interleaving of the sibling builds, the parallel build
\* returns the tree of the sequential build, with the same statistics
\* (hence the same number of sampled and verified points).
ParallelBuildSameTree ==
    pc = "pardone" =>
        /\ tree = first.tree
        /\ stats = first.stats

\* A parallel build has returned after running a call before one the
\* sequential build runs first, and a child of the root that is sampled
\* with random points has split.
ParallelBuildWitness ==
    /\ pc = "pardone"
    /\ reordered
    /\ tree.root.kind = "internal"
    /\ \E i \in Present(ChildRects(tree.bounds)) :
          /\ RandomlySampled(config, ChildRects(tree.bounds)[i])
          /\ tree.root.children[i].kind = "internal"

(***************************************************************************)
(* SpecDec: the decoder is given a byte stream that no TreeSerializer      *)
(* call need have written: the encoding of a tree, its root's presence     *)
(* byte or varint altered, and bytes appended.                             *)
(***************************************************************************)
\* The bytes that follow the root's encoding.
ExtraInputs == {<<>>, <<0>>, <<1, 5>>, <<255>>}

\* The value given to the upper four bits of the root's presence byte.
ReservedInputs == {0, 1, 15}

\* A varint with `pad` more groups than it needs: the last byte gets the
\* continuation bit, and groups of zero value follow.
PadVarint(varint, pad) ==
    IF pad = 0 THEN varint
    ELSE SubSeq(varint, 1, Len(varint) - 1) \o <<varint[Len(varint)] + 128>>
         \o [i \in 1..(pad - 1) |-> 128] \o <<0>>

\* The stream: the varint encoding of t, altered at the root, then `extra`.
Stream(t, extra, reserved, pad) ==
    LET bytes == Serialize(t, TRUE).value
    IN  IF t.root.kind = "internal"
        THEN <<bytes[1], bytes[2] + 16 * reserved>> \o SubSeq(bytes, 3, Len(bytes))
             \o extra
        ELSE <<bytes[1]>> \o PadVarint(SubSeq(bytes, 2, Len(bytes)), pad) \o extra

InitDec ==
    /\ pc = "serialized"
    /\ tree \in {QuadTree(root, SerBounds, 0) : root \in RootInputs}
    /\ \E extra \in ExtraInputs, reserved \in ReservedInputs, pad \in 0..MaxPad :
          /\ tree.root.kind = "internal" => pad = 0
          /\ tree.root.kind = "leaf" => reserved = 0
          /\ flags = [writer |-> "stream", use_varint |-> TRUE, compress |-> FALSE,
                      extra |-> extra, reserved |-> reserved, pad |-> pad]
          /\ data = Stream(tree, extra, reserved, pad)
    /\ restored = None
    /\ RectIdle /\ BuildIdle /\ ParIdle /\ LookupIdle /\ TableIdle /\ DbIdle /\ QuantIdle

NextDec == DeserializerDeserialize \/ CallDeserializeTree

SpecDec == InitDec /\ [][NextDec]_vars

\* The stream was read without decompression by a varint decoder.
ReadPlain ==
    /\ pc = "deserialized"
    /\ restored.use_varint
    /\ ~restored.compressed

\* C11 as stated: a complete root encoding followed by one or more bytes is
\* rejected by deserialize and by deserialize_tree(compressed=False); the
\* decoder succeeds only when the encoding ends where the data ends.
TrailingBytesRejected ==
    (ReadPlain /\ flags.reserved = 0 /\ flags.pad = 0) =>
        (restored.value.kind = "ok" <=> flags.extra = <<>>)

\* C12 as stated: a stream with an Internal node whose presence byte has a
\* reserved bit set is never decoded to a tree; and the presence byte the
\* serializer writes has bit i set iff slot i is non-null, its upper four
\* bits being zero.
ReservedBitsRejected ==
    /\ (ReadPlain /\ flags.reserved # 0) => restored.value.kind # "ok"
    /\ tree.root.kind = "internal" =>
          \E presence \in {Serialize(tree, TRUE).value[2]} :
              /\ presence < 16
              /\ \A i \in 0..3 :
                    ((presence \div (2 ^ i)) % 2 = 1) <=> (tree.root.children[i + 1] # None)

\* C13 as stated: _encode_varint(v) is the minimal little-endian base-128
\* sequence of v, _read_varint of it returns v, and a leaf whose varint is
\* padded with further groups is not decoded to the leaf of id v.
VarintCanonical ==
    tree.root.kind = "leaf" =>
        \E v \in {tree.root.country_id} : \E bytes \in {EncodeVarint(v)} :
            /\ \A i \in 1..(Len(bytes) - 1) : bytes[i] >= 128
            /\ bytes[Len(bytes)] < 128
            /\ Len(bytes) > 1 => bytes[Len(bytes)] # 0
            /\ ReadVarint(bytes, 0, 0, 0) = [kind |-> "ok", value |-> v, pos |-> Len(bytes)]
            /\ (ReadPlain /\ flags.pad > 0 /\ restored.value.kind = "ok")
                  => restored.value.value.root # LeafNode(v)

\* The Internal nodes of a subtree that have fewer than two children.
Underfilled(node) ==
    {n \in InternalNodes(node) : Cardinality({i \in 1..4 : n.children[i] # None}) < 2}

\* C16 as stated: TreeSerializer refuses a tree with an Internal node of
\* fewer than two children, and TreeDeserializer raises on the stream of
\* such a tree (e.g. 00 04 01 05) rather than returning a tree.
ChildCountEnforced ==
    Underfilled(tree.root) # {} =>
        /\ Serialize(tree, TRUE).kind # "ok"
        /\ (ReadPlain /\ flags.reserved = 0 /\ flags.extra = <<>>)
              => restored.value.kind # "ok"

(***************************************************************************)
(* serialize.py: serialize_country_table.  A dict is the sequence of its   *)
(* <<key, value>> items in insertion order, a str the sequence of its code *)
(* points.                                                                 *)
(***************************************************************************)
\* code[:code_length].ljust(code_length)
PadOrTruncate(code, length) ==
    [j \in 1..length |-> IF j <= Len(code) THEN code[j] ELSE 32]

\* code.encode("ascii")
EncodeAscii(code) ==
    IF \E j \in 1..Len(code) : code[j] > 127
    THEN [kind |-> "UnicodeEncodeError"]
    ELSE [kind |-> "ok", value |-> code]

\* The items of the dict as the loop would visit them without sorted().
InsertionOrder(items) == items

\* The items of the dict in the order of sorted(country_codes.keys()).
RECURSIVE SortedItems(_)
SortedItems(items) ==
    IF items = <<>> THEN <<>>
    ELSE LET least == CHOOSE i \in 1..Len(items) :
                          \A j \in 1..Len(items) : items[i][1] <= items[j][1]
         IN  <<items[least]>>
             \o SortedItems(SubSeq(items, 1, least - 1)
                            \o SubSeq(items, least + 1, Len(items)))

\* The loop over the sorted items, appending to the buffer.
RECURSIVE TableEntries(_, _, _)
TableEntries(buffer, items, length) ==
    IF buffer.kind # "ok" \/ items = <<>> THEN buffer
    ELSE TableEntries(
             Extend(Extend(buffer, PackU16(items[1][1])),
                    EncodeAscii(PadOrTruncate(items[1][2], length))),
             Tail(items), length)

SerializeCountryTable(items, length) ==
    IF length \notin {2, 3} THEN ValueError("code_length must be 2 or 3")
    ELSE TableEntries(Extend([kind |-> "ok", value |-> <<length>>], PackU16(Len(items))),
                      SortedItems(items), length)

(***************************************************************************)
(* SpecTable: serialize_country_table on a mapping and a code length.      *)
(***************************************************************************)
\* Ids at both ends of the u16 range, across the byte boundary, and past it.
TableIdInputs == {0, 258, 65535, 65536}

\* "", "A", "US", "USA", "FRAN", and codes with U+00E9 inside and past two
\* characters.
CodeInputs ==
    {<<>>, <<65>>, <<85, 83>>, <<85, 83, 65>>, <<70, 82, 65, 78>>, <<233, 85>>,
     <<85, 83, 233>>}

ItemInputs == TableIdInputs \X CodeInputs

\* The dicts of at most MaxEntries items.
MappingInputs ==
    {items \in UNION {[1..n -> ItemInputs] : n \in 0..MaxEntries} :
        \A i \in 1..Len(items), j \in 1..Len(items) : i # j => items[i][1] # items[j][1]}

InitTable ==
    /\ pc = "table"
    /\ country_codes \in MappingInputs
    /\ code_length \in 1..4
    /\ table = None
    /\ tree = None
    /\ RectIdle /\ BuildIdle /\ ParIdle /\ SerIdle /\ LookupIdle /\ DbIdle /\ QuantIdle

CallSerializeCountryTable ==
    /\ pc = "table"
    /\ table' = SerializeCountryTable(country_codes, code_length)
    /\ pc' = "returned"
    /\ UNCHANGED <<country_codes, code_length, tree, rectVars, buildVars, parVars,
                   serVars, lookupVars, dbVars, quantVars>>

NextTable == CallSerializeCountryTable

SpecTable == InitTable /\ [][NextTable]_vars

\* The number of items of smaller id: the place of an item in ascending order.
Rank(items, i) == Cardinality({j \in 1..Len(items) : items[j][1] < items[i][1]})

\* The bytes are the header and one entry per item, in ascending id order.
TableLayout(bytes, items, length) ==
    /\ Len(bytes) = 3 + Len(items) * (2 + length)
    /\ bytes[1] = length
    /\ bytes[2] + 256 * bytes[3] = Len(items)
    /\ \A i \in 1..Len(items) :
          \E at \in {3 + Rank(items, i) * (2 + length)} :
              /\ bytes[at + 1] + 256 * bytes[at + 2] = items[i][1]
              /\ bytes[at + 1] < 256 /\ bytes[at + 2] < 256
              /\ \A j \in 1..length :
                    /\ bytes[at + 2 + j] < 128
                    /\ bytes[at + 2 + j] = IF j <= Len(items[i][2]) THEN items[i][2][j] ELSE 32

\* C19 as stated: for every mapping and code_length 2 or 3 the bytes have the
\* table layout; any other code_length raises ValueError.
CountryTableLayout ==
    pc = "returned" =>
        IF code_length \in {2, 3}
        THEN table.kind = "ok" /\ TableLayout(table.value, country_codes, code_length)
        ELSE table.kind = "ValueError"

\* The mappings whose ids and count fit a u16 and whose codes are ASCII in
\* the characters that are kept.
FitsTable(items, length) ==
    /\ Len(items) <= 65535
    /\ \A i \in 1..Len(items) :
          /\ items[i][1] \in 0..65535
          /\ \A j \in 1..Min(length, Len(items[i][2])) : items[i][2][j] < 128

\* C19 amended: the layout holds for every mapping whose ids are in
\* 0..65535, with at most 65535 entries, and whose codes are ASCII in their
\* first code_length characters; any other code_length raises ValueError.
CountryTableLayoutOfFitting ==
    pc = "returned" =>
        IF code_length \in {2, 3}
        THEN FitsTable(country_codes, code_length) =>
                table.kind = "ok" /\ TableLayout(table.value, country_codes, code_length)
        ELSE table.kind = "ValueError"

\* Three items inserted in descending id order, one code padded and one
\* truncated, were written with code_length 3.
CountryTableLayoutWitness ==
    /\ pc = "returned"
    /\ code_length = 3
    /\ country_codes = << <<65535, <<85, 83>> >>, <<258, <<70, 82, 65, 78>> >>,
                          <<0, <<85, 83, 65>> >> >>
    /\ table = [kind |-> "ok",
                value |-> <<3, 3, 0, 0, 0, 85, 83, 65, 2, 1, 70, 82, 65,
                            255, 255, 85, 83, 32>>]

(***************************************************************************)
(* duckdb_oracle.py: DuckDBOracle.  The table `countries` is the sequence  *)
(* of its rows, a row the ISO code (NULL for none) and the set of lattice  *)
(* points ST_Contains holds for; the rows a query without ORDER BY returns *)
(* come in any order.  _cache is the sequence of its items in insertion    *)
(* order.                                                                  *)
(***************************************************************************)
\* The NULL of a column, which fetchone and fetchall give as None.
NULL == "NULL"

\* ORDER BY iso_field on the codes of the tables given.
IsoOrder == <<"-99", "AAA", "BBB">>

IsoBefore(a, b) ==
    \E i \in 1..Len(IsoOrder), j \in 1..Len(IsoOrder) :
        i < j /\ IsoOrder[i] = a /\ IsoOrder[j] = b

\* The codes _build_country_mapping selects.
MappedCodes(rows) ==
    {rows[i].iso : i \in 1..Len(rows)} \ {NULL, "-99"}

\* _iso_to_id[iso], after _build_country_mapping.
IsoToId(rows, iso) ==
    IF iso = "-99" THEN OCEAN_ID
    ELSE 1 + Cardinality({other \in MappedCodes(rows) : IsoBefore(other, iso)})

\* The country id lookup and lookup_batch give an ISO code.
CountryIdOf(rows, iso) ==
    IF iso = NULL \/ iso = "-99" THEN OCEAN_ID
    ELSE IF iso \in MappedCodes(rows) THEN IsoToId(rows, iso)
    ELSE OCEAN_ID

\* The codes of the rows whose geometry contains the point; the code a
\* query keeps is one of them, None when no row matches.
QueryPoint(rows, p) ==
    IF \A i \in 1..Len(rows) : p \notin rows[i].geom THEN {NULL}
    ELSE {rows[i].iso : i \in {k \in 1..Len(rows) : p \in rows[k].geom}}

\* cache_key in self._cache, and self._cache[cache_key]
Cached(items, key) == \E i \in 1..Len(items) : items[i][1] = key

CacheGet(items, key) == items[CHOOSE i \in 1..Len(items) : items[i][1] = key][2]

\* self._cache[cache_key] = country_id
CachePut(items, key, id) ==
    IF Cached(items, key)
    THEN [i \in 1..Len(items) |-> IF items[i][1] = key THEN <<key, id>> ELSE items[i]]
    ELSE Append(items, <<key, id>>)

\* The eviction of lookup: the first tenth of the keys, when the cache is full.
Evict(items, size) ==
    IF Len(items) >= size
    THEN SubSeq(items, Min(size \div 10, Len(items)) + 1, Len(items))
    ELSE items

\* The values lookup(p) can return with the cache `items`.
LookupValues(rows, items, p) ==
    IF Cached(items, p) THEN {CacheGet(items, p)}
    ELSE {CountryIdOf(rows, iso) : iso \in QueryPoint(rows, p)}

\* The last loop of lookup_batch from index i on: the results of the points
\* that were not cached are cached while the cache is below its size.
RECURSIVE CacheBatch(_, _, _, _, _, _)
CacheBatch(items, size, points, uncached, results, i) ==
    IF i > Len(points) THEN items
    ELSE CacheBatch(IF i \in uncached /\ Len(items) < size
                    THEN CachePut(items, points[i], results[i])
                    ELSE items,
                    size, points, uncached, results, i + 1)

(***************************************************************************)
(* SpecOracle: lookup and lookup_batch, called in any order on a mock      *)
(* oracle (Oracle.lookup_batch) or on a DuckDBOracle.                      *)
(***************************************************************************)
PointInputs == {<<0, 0>>, <<0, 1>>, <<1, 1>>}

BatchInputs == UNION {[1..n -> PointInputs] : n \in 0..MaxPoints}

Row(iso, geom) == [iso |-> iso, geom |-> geom]

\* An empty table; two countries apart; two countries that share a point;
\* rows of code -99 and of NULL code.
ShapefileInputs ==
    {<<>>,
     <<Row("BBB", {<<0, 0>>}), Row("AAA", {<<0, 1>>})>>,
     <<Row("AAA", {<<0, 0>>, <<0, 1>>}), Row("BBB", {<<0, 1>>, <<1, 1>>})>>,
     <<Row("-99", {<<0, 0>>}), Row(NULL, {<<0, 1>>}), Row("AAA", {<<1, 1>>})>>}

CacheSizeInputs == {0, 1, 2, 10000}

InitOracle ==
    /\ pc = "oracle"
    /\ \/ oracle \in {GridOracle, UniformOracle(7)} /\ countries = <<>> /\ cache_size = 0
       \/ oracle = None /\ countries \in ShapefileInputs /\ cache_size \in CacheSizeInputs
    /\ cache = <<>>
    /\ answer = None
    /\ config = None /\ stats = None /\ stack = <<>> /\ oracle_log = <<>> /\ first = None
    /\ tree = None
    /\ RectIdle /\ ParIdle /\ SerIdle /\ LookupIdle /\ TableIdle /\ QuantIdle

\* The call `name` of class `impl` on `points` returned `value`.
Answered(impl, name, points, value) ==
    /\ answer' = [impl |-> impl, name |-> name, points |-> points, value |-> value,
                  before |-> cache]
    /\ UNCHANGED <<pc, tree, countries, cache_size, rectVars, buildVars, parVars, serVars,
                   lookupVars, tableVars, quantVars>>

\* lookup of a mock oracle
MockLookup ==
    /\ pc = "oracle" /\ oracle # None
    /\ \E p \in PointInputs :
          Answered("Oracle", "lookup", <<p>>, <<OracleLookup(p[1], p[2])>>)
    /\ UNCHANGED cache

\* Oracle.lookup_batch
MockLookupBatch ==
    /\ pc = "oracle" /\ oracle # None
    /\ \E points \in BatchInputs :
          Answered("Oracle", "lookup_batch", points, LookupBatch(points))
    /\ UNCHANGED cache

\* DuckDBOracle.lookup
DbLookup ==
    /\ pc = "oracle" /\ oracle = None
    /\ \E p \in PointInputs :
          \E id \in LookupValues(countries, cache, p) :
              /\ Answered("DuckDBOracle", "lookup", <<p>>, <<id>>)
              /\ cache' = IF Cached(cache, p) THEN cache
                          ELSE CachePut(Evict(cache, cache_size), p, id)

\* DuckDBOracle.lookup_batch
DbLookupBatch ==
    /\ pc = "oracle" /\ oracle = None
    /\ \E points \in BatchInputs :
          \E uncached \in {{i \in 1..Len(points) : ~Cached(cache, points[i])}} :
              \E results \in [1..Len(points) -> 0..Len(IsoOrder)] :
                  /\ \A i \in 1..Len(points) :
                        IF i \in uncached
                        THEN \E iso \in QueryPoint(countries, points[i]) :
                                 results[i] = CountryIdOf(countries, iso)
                        ELSE results[i] = CacheGet(cache, points[i])
                  /\ Answered("DuckDBOracle", "lookup_batch", points, results)
                  /\ cache' = CacheBatch(cache, cache_size, points, uncached, results, 1)

NextOracle == MockLookup \/ MockLookupBatch \/ DbLookup \/ DbLookupBatch

SpecOracle == InitOracle /\ [][NextOracle]_vars

\* The values lookup(p) can return, of the oracle called last, in the state
\* before that call.
SingleValues(p) ==
    IF answer.impl = "Oracle" THEN {OracleLookup(p[1], p[2])}
    ELSE LookupValues(countries, answer.before, p)

\* C20 as stated: lookup_batch(points) returns a list of the length of
\* points whose i-th element is what lookup(points[i]) returns, for the
\* default Oracle.lookup_batch and for DuckDBOracle.lookup_batch, with
\* duplicates and from every cache state earlier calls leave.
BatchAgreesWithLookup ==
    (answer # None /\ answer.name = "lookup_batch") =>
        /\ Len(answer.value) = Len(answer.points)
        /\ \A i \in 1..Len(answer.points) :
              \A single \in SingleValues(answer.points[i]) : answer.value[i] = single

(***************************************************************************)
(* quantize.py.  A float is a binary floating-point number of MantBits     *)
(* significant bits whose least exponent is -FracBits: a finite float is   *)
(* the integer v of its value v / Unit, and every operation rounds its     *)
(* exact result to the nearest float, ties to even, as IEEE 754 does.      *)
(* The world is LatDegrees by LonDegrees degrees.                          *)
(***************************************************************************)
Unit == 2 ^ FracBits

Float(v) == [kind |-> "float", v |-> v]
Infinity(sign) == [kind |-> "inf", v |-> sign]
NaN == [kind |-> "nan", v |-> 0]

\* a < b on floats: false when either is NaN.
FloatLess(a, b) ==
    IF a.kind = "nan" \/ b.kind = "nan" THEN FALSE
    ELSE IF a.kind = "inf" THEN a.v < 0 /\ (b.kind # "inf" \/ b.v > 0)
    ELSE IF b.kind = "inf" THEN b.v > 0
    ELSE a.v < b.v

\* min(a, b) and max(a, b) of Python: a, unless b is less (greater).
PyMin(a, b) == IF FloatLess(b, a) THEN b ELSE a

PyMax(a, b) == IF FloatLess(a, b) THEN b ELSE a

\* The exponent of the float nearest to n / den, n >= 0: the least k >= 0
\* with n / den < 2^MantBits * 2^k.
RECURSIVE Exponent(_, _, _)
Exponent(n, den, k) ==
    IF n < (2 ^ MantBits) * (2 ^ k) * den THEN k ELSE Exponent(n, den, k + 1)

\* The float nearest to num / (den * Unit), ties to even.
RoundToFloat(num, den) ==
    LET n == IF num < 0 THEN -num ELSE num
        step == (2 ^ Exponent(n, den, 0)) * den
        low == n \div step
        rest == n % step
        m == IF 2 * rest > step \/ (2 * rest = step /\ low % 2 = 1)
             THEN low + 1 ELSE low
    IN  (IF num < 0 THEN -1 ELSE 1) * m * (step \div den)

\* 90.0 and 180.0: half the height and half the width of the world.
HalfLat == (LatDegrees * Unit) \div 2

HalfLon == (LonDegrees * Unit) \div 2

\* clamp_coords: the clamped values are finite.
ClampCoords(lat, lon) ==
    [lat |-> PyMax(Float(-HalfLat), PyMin(Float(HalfLat), lat)).v,
     lon |-> PyMax(Float(-HalfLon), PyMin(Float(HalfLon), lon)).v]

\* int(x): truncation toward zero.
IntOf(x) == IF x >= 0 THEN x \div Unit ELSE -((-x) \div Unit)

\* _round_half_away_from_zero
RoundHalfAwayFromZero(x) ==
    IF x >= 0 THEN IntOf(RoundToFloat(x + (Unit \div 2), 1))
    ELSE IntOf(RoundToFloat(x - (Unit \div 2), 1))

\* The indices of finite coordinates without either clamp.
QuantizeUnclamped(lat, lon, precision) ==
    << RoundHalfAwayFromZero(
           RoundToFloat(RoundToFloat(lat.v + HalfLat, 1) * (10 ^ precision), 1)),
       RoundHalfAwayFromZero(
           RoundToFloat(RoundToFloat(lon.v + HalfLon, 1) * (10 ^ precision), 1)) >>

\* quantize(lat, lon, precision) = <<ilat, ilon>>
Quantize(lat, lon, precision) ==
    LET c == ClampCoords(lat, lon)
        q == 10 ^ precision
        ilon == RoundHalfAwayFromZero(RoundToFloat(RoundToFloat(c.lon + HalfLon, 1) * q, 1))
        ilat == RoundHalfAwayFromZero(RoundToFloat(RoundToFloat(c.lat + HalfLat, 1) * q, 1))
    IN  << Max(0, Min(GetGridDimensions(precision).max_ilat, ilat)),
           Max(0, Min(GetGridDimensions(precision).max_ilon, ilon)) >>

\* dequantize(ilat, ilon, precision) = <<lat, lon>>
Dequantize(ilat, ilon, precision) ==
    << RoundToFloat(RoundToFloat(ilat * Unit, 10 ^ precision) - HalfLat, 1),
       RoundToFloat(RoundToFloat(ilon * Unit, 10 ^ precision) - HalfLon, 1) >>

\* QuadTree.lookup_coords(lat, lon)
LookupCoords(t, lat, lon) ==
    TreeLookup(t, Quantize(lat, lon, t.precision)[1], Quantize(lat, lon, t.precision)[2])

(***************************************************************************)
(* SpecQuant: quantize, dequantize of its result, and lookup_coords on a   *)
(* tree over the full grid.                                                *)
(***************************************************************************)
Representable(v) == RoundToFloat(v, 1) = v

\* Every float up to half a degree beyond the poles, the infinities, NaN.
LatitudeInputs ==
    {Float(v) : v \in {w \in (-HalfLat - (Unit \div 2))..(HalfLat + (Unit \div 2)) :
                           Representable(w)}}
    \cup {Infinity(-1), Infinity(1), NaN}

\* Longitudes at and beyond the antimeridian, at and next to half a degree,
\* the infinities, NaN.
LongitudeInputs ==
    {Float(v) : v \in {-HalfLon - Unit, -HalfLon, -(Unit \div 2), 0, (Unit \div 2) - 1,
                       Unit \div 2, Unit + 3, HalfLon, HalfLon + Unit}}
    \cup {Infinity(-1), Infinity(1), NaN}

\* A tree over the full grid of a precision.
GridTree(precision) ==
    QuadTree(InternalNode(<<LeafNode(1), LeafNode(2), LeafNode(3), LeafNode(4)>>),
             FullBounds(precision), precision)

InitQuant ==
    /\ pc = "coords"
    /\ coords \in [lat : LatitudeInputs, lon : LongitudeInputs, precision : 0..MaxPrecision]
    /\ cell = None
    /\ back = None
    /\ tree = GridTree(coords.precision)
    /\ RectIdle /\ BuildIdle /\ ParIdle /\ SerIdle /\ LookupIdle /\ TableIdle /\ DbIdle

CallQuantize ==
    /\ pc = "coords"
    /\ cell' = Quantize(coords.lat, coords.lon, coords.precision)
    /\ pc' = "quantized"
    /\ UNCHANGED <<coords, back, tree, rectVars, buildVars, parVars, serVars, lookupVars,
                   tableVars, dbVars>>

CallDequantize ==
    /\ pc = "quantized"
    /\ back' = Dequantize(cell[1], cell[2], coords.precision)
    /\ pc' = "dequantized"
    /\ UNCHANGED <<coords, cell, tree, rectVars, buildVars, parVars, serVars, lookupVars,
                   tableVars, dbVars>>

CallLookupCoords ==
    /\ pc = "coords"
    /\ query' = Quantize(coords.lat, coords.lon, coords.precision)
    /\ result' = LookupCoords(tree, coords.lat, coords.lon)
    /\ pc' = "looked up"
    /\ UNCHANGED <<coords, cell, back, tree, rectVars, buildVars, parVars, serVars,
                   tableVars, dbVars>>

NextQuant == CallQuantize \/ CallDequantize \/ CallLookupCoords

SpecQuant == InitQuant /\ [][NextQuant]_vars

\* The index a coordinate is to get when it is at or beyond an extreme.
AtExtreme(value, half, index, max_index) ==
    /\ index \in 0..max_index
    /\ (value = Float(-half) \/ FloatLess(value, Float(-half))) => index = 0
    /\ (value = Float(half) \/ FloatLess(Float(half), value)) => index = max_index

\* C23: quantize returns indices inside the grid for every input, the
\* south-west extreme at <<0, 0>>, the north-east extreme at the greatest
\* indices, every input beyond an extreme where the extreme is; so
\* lookup_coords on a tree over the full grid never raises.
ClampingTotal ==
    /\ pc \in {"quantized", "dequantized"} =>
          /\ AtExtreme(coords.lat, HalfLat, cell[1],
                       GetGridDimensions(coords.precision).max_ilat)
          /\ AtExtreme(coords.lon, HalfLon, cell[2],
                       GetGridDimensions(coords.precision).max_ilon)
    /\ pc = "looked up" => result.kind = "ok"

\* Coordinates that are NaN and plus infinity were looked up at the corner
\* of the grid of precision 1.
ClampingTotalWitness ==
    /\ pc = "looked up"
    /\ coords.precision = 1
    /\ coords.lat = NaN /\ coords.lon = Infinity(1)
    /\ query = <<GetGridDimensions(1).max_ilat, GetGridDimensions(1).max_ilon>>
    /\ result.kind = "ok"

\* The coordinates given are inside WGS84.
InsideWGS84 ==
    /\ coords.lat.kind = "float" /\ coords.lat.v \in (-HalfLat)..HalfLat
    /\ coords.lon.kind = "float" /\ coords.lon.v \in (-HalfLon)..HalfLon

\* dequantize(quantize(value)) = returned is within half a cell of value, and
\* a value exactly half a cell above an index goes to the index above.
WithinHalfCell(value, half, index, returned, q) ==
    /\ (IF value >= returned THEN value - returned ELSE returned - value) * 2 * q <= Unit
    /\ ((value + half) * q * 2) % (2 * Unit) = Unit
          => index = ((value + half) * q * 2 + Unit) \div (2 * Unit)

\* C24 as stated: for coordinates inside WGS84, dequantize of quantize is
\* within 1 / (2 * 10^p) of each coordinate, and ties at half a cell go to
\* the higher index.
QuantizeRoundTripBound ==
    (pc = "dequantized" /\ InsideWGS84) =>
        /\ WithinHalfCell(coords.lat.v, HalfLat, cell[1], back[1], 10 ^ coords.precision)
        /\ WithinHalfCell(coords.lon.v, HalfLon, cell[2], back[2], 10 ^ coords.precision)

\* C29: after any sequence of DuckDBOracle.lookup and lookup_batch calls
\* the cache holds at most cache_size entries, for every cache_size >= 1,
\* and every cached value is an id an uncached query of its point returns.
CacheBound ==
    (oracle = None /\ cache_size >= 1) =>
        /\ Len(cache) <= cache_size
        /\ \A i \in 1..Len(cache) :
              cache[i][2] \in LookupValues(countries, <<>>, cache[i][1])

(***************************************************************************)
(* SpecVerify: _brute_force_verify on a rectangle of the grid, for an      *)
(* expected id, an oracle and a batch size.                                *)
(***************************************************************************)
\* The rectangles inside the full grid.
GridRectInputs ==
    {r \in [x0 : 0..LonDegrees, x1 : 0..LonDegrees, y0 : 0..LatDegrees, y1 : 0..LatDegrees] :
        r.x0 <= r.x1 /\ r.y0 <= r.y1}

ExpectedInputs == {OCEAN_ID, 1, 7}

InitVerify ==
    /\ pc = "verify"
    /\ oracle \in OracleInputs
    /\ config \in {c \in ConfigInputs :
                      /\ PostInit(c) = None
                      /\ c.seed = 0 /\ c.sample_k = 1 /\ c.max_depth = DefaultMaxDepth
                      /\ c.brute_force_threshold = PointCount(FullBounds(0))}
    /\ rect \in GridRectInputs
    /\ op = [name |-> "new", args |-> <<>>]
    /\ out = None
    /\ stats = None /\ stack = <<>> /\ oracle_log = <<>> /\ first = None
    /\ tree = None
    /\ ParIdle /\ SerIdle /\ LookupIdle /\ TableIdle /\ DbIdle /\ QuantIdle

CallBruteForceVerify ==
    /\ pc = "verify"
    /\ \E expected \in ExpectedInputs :
          /\ op' = [name |-> "_brute_force_verify", args |-> <<expected>>]
          /\ out' = BruteForceVerify(config, rect, expected)
    /\ UNCHANGED <<pc, rect, tree, buildVars, parVars, serVars, lookupVars, tableVars,
                   dbVars, quantVars>>

NextVerify == CallBruteForceVerify

SpecVerify == InitVerify /\ [][NextVerify]_vars

\* The points of the batches, in the order they were submitted.
RECURSIVE Flatten(_)
Flatten(batches) ==
    IF batches = <<>> THEN <<>> ELSE Head(batches) \o Flatten(Tail(batches))

\* <<ilat, ilon>> points in row-major order from the south-west corner of
\* the rectangle at hand: x runs first, then y.
RowMajor(points) ==
    /\ points # <<>> => points[1] = <<rect.y0, rect.x0>>
    /\ \A n \in 1..(Len(points) - 1) :
          IF points[n][2] < rect.x1
          THEN points[n + 1] = <<points[n][1], points[n][2] + 1>>
          ELSE points[n + 1] = <<points[n][1] + 1, rect.x0>>

\* Some point of the batch has an oracle value other than expected.
Mismatch(batch, expected) ==
    \E j \in 1..Len(batch) : OracleLookup(batch[j][1], batch[j][2]) # expected

\* C26: _brute_force_verify submits the points of the rectangle in
\* row-major order, in batches of exactly batch_size points but for a
\* shorter last batch of the rectangle, stops after the first batch with a
\* mismatch, and returns True iff the oracle is `expected` on the rectangle.
BruteForceProtocol ==
    op.name = "_brute_force_verify" =>
        \E expected \in {op.args[1]} : \E batches \in {out.batches} :
            /\ RowMajor(Flatten(batches))
            /\ \A i \in 1..Len(batches) :
                  /\ Len(batches[i]) \in 1..config.batch_size
                  /\ Len(batches[i]) < config.batch_size =>
                        /\ i = Len(batches)
                        /\ batches[i][Len(batches[i])] = <<rect.y1, rect.x1>>
                  /\ i < Len(batches) => ~Mismatch(batches[i], expected)
            /\ batches # <<>>
            /\ IF Mismatch(batches[Len(batches)], expected)
               THEN out.ok = FALSE
               ELSE out.ok = TRUE /\ Len(Flatten(batches)) = PointCount(rect)
            /\ out.ok <=> Uniform(rect, expected)

\* A verification of a rectangle of several rows stopped at a mismatch in
\* its second batch, with points left over.
BruteForceProtocolWitness ==
    /\ op.name = "_brute_force_verify"
    /\ Height(rect) > 1 /\ Width(rect) > 2
    /\ config.batch_size = MaxBatchSize
    /\ out.ok = FALSE
    /\ Len(out.batches) = 2
    /\ Len(Flatten(out.batches)) < PointCount(rect)
====
